---- MODULE Spec2Model ----
(***************************************************************************)
(* Verification model of the python-entsoe client library:                 *)
(*   - the identifier resolvers of entsoe/_mappings.py,                    *)
(*   - the TimeSeries parser of entsoe/_xml.py,                            *)
(*   - the transport layer of entsoe/_http.py.                             *)
(*                                                                         *)
(* Text is modelled as a sequence of one-character strings so that         *)
(* lower(), upper(), strip() and replace() are computed, not assumed.      *)
(* The letters a-ring and o-umlaut of two display names are written as the *)
(* tokens "a-ring"/"A-RING" and "o-uml"/"O-UML".                            *)
(***************************************************************************)
EXTENDS Integers, Sequences, FiniteSets, TLC

VARIABLES
    call,      \* resolver: the pending or completed call [fn, registry, identifier, origin]
    ret,       \* resolver: its outcome, or Pending
    doc,       \* parser: the XML document handed to parse_timeseries
    parsed,    \* parser: outcome of parse_timeseries, or Pending
    http,      \* transport: state of one HttpClient.query / query_raw call
    ns,        \* namespaces: state of one fan-out query of a namespace method
    q,         \* namespaces: state of one BaseNamespace._query call
    registries,\* _mappings: the module-level registries and derived indexes
    threads    \* resolver calls running concurrently, one per thread

vars == <<call, ret, doc, parsed, http, ns, q, registries, threads>>

\* ------------------------------------------------------------------------
\* Python string operations on character sequences
\* ------------------------------------------------------------------------

UpperChars ==
  <<"A","B","C","D","E","F","G","H","I","J","K","L","M","N","O","P","Q","R",
    "S","T","U","V","W","X","Y","Z","A-RING","O-UML">>

LowerChars ==
  <<"a","b","c","d","e","f","g","h","i","j","k","l","m","n","o","p","q","r",
    "s","t","u","v","w","x","y","z","a-ring","o-uml">>

\* code-point order of the characters that occur in sorted() keys
OrdChars ==
  <<"0","1","2","3","4","5","6","7","8","9">> \o SubSeq(UpperChars, 1, 26)
     \o <<"_">> \o SubSeq(LowerChars, 1, 26)

Whitespace == {" ", "\t"}

Range(s) == {s[i] : i \in 1..Len(s)}

IndexIn(c, s) == CHOOSE i \in 1..Len(s) : s[i] = c

lowerChar(c) == IF c \in Range(UpperChars) THEN LowerChars[IndexIn(c, UpperChars)] ELSE c

upperChar(c) == IF c \in Range(LowerChars) THEN UpperChars[IndexIn(c, LowerChars)] ELSE c

lower(s) == [i \in 1..Len(s) |-> lowerChar(s[i])]

upper(s) == [i \in 1..Len(s) |-> upperChar(s[i])]

replace(s, old, new) == [i \in 1..Len(s) |-> IF s[i] = old THEN new ELSE s[i]]

strip(s) ==
  LET keep == {i \in 1..Len(s) : s[i] \notin Whitespace}
  IN  IF keep = {} THEN <<>>
      ELSE LET first == CHOOSE i \in keep : \A j \in keep : i <= j
               last  == CHOOSE i \in keep : \A j \in keep : j <= i
           IN  SubSeq(s, first, last)

Ord(c) == IndexIn(c, OrdChars)

RECURSIVE StrLess(_, _)
StrLess(a, b) ==
  IF a = <<>> THEN b # <<>>
  ELSE IF b = <<>> THEN FALSE
  ELSE IF Head(a) = Head(b) THEN StrLess(Tail(a), Tail(b))
  ELSE Ord(Head(a)) < Ord(Head(b))

sorted(s) == SortSeq(s, StrLess)

\* ------------------------------------------------------------------------
\* Registries (entsoe/_mappings.py), in dict insertion order
\* ------------------------------------------------------------------------

AREAS ==
  << [key |-> <<"A","L">>, eic |-> <<"1","0","Y","A","L","-","K","E","S","H","-","-","-","-","-","5">>, name |-> <<"A","l","b","a","n","i","a">>],
     [key |-> <<"A","T">>, eic |-> <<"1","0","Y","A","T","-","A","P","G","-","-","-","-","-","-","L">>, name |-> <<"A","u","s","t","r","i","a">>],
     [key |-> <<"B","A">>, eic |-> <<"1","0","Y","B","A","-","J","P","C","C","-","-","-","-","-","D">>, name |-> <<"B","o","s","n","i","a"," ","a","n","d"," ","H","e","r","z","e","g","o","v","i","n","a">>],
     [key |-> <<"B","E">>, eic |-> <<"1","0","Y","B","E","-","-","-","-","-","-","-","-","-","-","2">>, name |-> <<"B","e","l","g","i","u","m">>],
     [key |-> <<"B","G">>, eic |-> <<"1","0","Y","C","A","-","B","U","L","G","A","R","I","A","-","R">>, name |-> <<"B","u","l","g","a","r","i","a">>],
     [key |-> <<"C","H">>, eic |-> <<"1","0","Y","C","H","-","S","W","I","S","S","G","R","I","D","Z">>, name |-> <<"S","w","i","t","z","e","r","l","a","n","d">>],
     [key |-> <<"C","Z">>, eic |-> <<"1","0","Y","C","Z","-","C","E","P","S","-","-","-","-","-","N">>, name |-> <<"C","z","e","c","h"," ","R","e","p","u","b","l","i","c">>],
     [key |-> <<"D","E">>, eic |-> <<"1","0","Y","1","0","0","1","A","1","0","0","1","A","8","3","F">>, name |-> <<"G","e","r","m","a","n","y">>],
     [key |-> <<"D","E","_","L","U">>, eic |-> <<"1","0","Y","1","0","0","1","A","1","0","0","1","A","8","2","H">>, name |-> <<"G","e","r","m","a","n","y","/","L","u","x","e","m","b","o","u","r","g">>],
     [key |-> <<"D","E","_","A","T","_","L","U">>, eic |-> <<"1","0","Y","1","0","0","1","A","1","0","0","1","A","6","3","L">>, name |-> <<"G","e","r","m","a","n","y","/","A","u","s","t","r","i","a","/","L","u","x","e","m","b","o","u","r","g">>],
     [key |-> <<"D","K">>, eic |-> <<"1","0","Y","1","0","0","1","A","1","0","0","1","A","6","5","H">>, name |-> <<"D","e","n","m","a","r","k">>],
     [key |-> <<"D","K","_","1">>, eic |-> <<"1","0","Y","D","K","-","1","-","-","-","-","-","-","-","-","W">>, name |-> <<"D","e","n","m","a","r","k"," ","(","W","e","s","t",")">>],
     [key |-> <<"D","K","_","2">>, eic |-> <<"1","0","Y","D","K","-","2","-","-","-","-","-","-","-","-","M">>, name |-> <<"D","e","n","m","a","r","k"," ","(","E","a","s","t",")">>],
     [key |-> <<"E","E">>, eic |-> <<"1","0","Y","1","0","0","1","A","1","0","0","1","A","3","9","I">>, name |-> <<"E","s","t","o","n","i","a">>],
     [key |-> <<"E","S">>, eic |-> <<"1","0","Y","E","S","-","R","E","E","-","-","-","-","-","-","0">>, name |-> <<"S","p","a","i","n">>],
     [key |-> <<"F","I">>, eic |-> <<"1","0","Y","F","I","-","1","-","-","-","-","-","-","-","-","U">>, name |-> <<"F","i","n","l","a","n","d">>],
     [key |-> <<"F","R">>, eic |-> <<"1","0","Y","F","R","-","R","T","E","-","-","-","-","-","-","C">>, name |-> <<"F","r","a","n","c","e">>],
     [key |-> <<"G","B">>, eic |-> <<"1","0","Y","G","B","-","-","-","-","-","-","-","-","-","-","A">>, name |-> <<"G","r","e","a","t"," ","B","r","i","t","a","i","n">>],
     [key |-> <<"G","R">>, eic |-> <<"1","0","Y","G","R","-","H","T","S","O","-","-","-","-","-","Y">>, name |-> <<"G","r","e","e","c","e">>],
     [key |-> <<"H","R">>, eic |-> <<"1","0","Y","H","R","-","H","E","P","-","-","-","-","-","-","M">>, name |-> <<"C","r","o","a","t","i","a">>],
     [key |-> <<"H","U">>, eic |-> <<"1","0","Y","H","U","-","M","A","V","I","R","-","-","-","-","U">>, name |-> <<"H","u","n","g","a","r","y">>],
     [key |-> <<"I","E">>, eic |-> <<"1","0","Y","I","E","-","1","0","0","1","A","0","0","0","1","0">>, name |-> <<"I","r","e","l","a","n","d">>],
     [key |-> <<"I","E","_","S","E","M">>, eic |-> <<"1","0","Y","1","0","0","1","A","1","0","0","1","A","5","9","C">>, name |-> <<"I","r","e","l","a","n","d"," ","(","S","E","M",")">>],
     [key |-> <<"I","T">>, eic |-> <<"1","0","Y","I","T","-","G","R","T","N","-","-","-","-","-","B">>, name |-> <<"I","t","a","l","y">>],
     [key |-> <<"I","T","_","N","O","R","T","H">>, eic |-> <<"1","0","Y","1","0","0","1","A","1","0","0","1","A","7","3","I">>, name |-> <<"I","t","a","l","y"," ","(","N","o","r","t","h",")">>],
     [key |-> <<"I","T","_","C","N","O","R">>, eic |-> <<"1","0","Y","1","0","0","1","A","1","0","0","1","A","7","0","O">>, name |-> <<"I","t","a","l","y"," ","(","C","e","n","t","r","a","l"," ","N","o","r","t","h",")">>],
     [key |-> <<"I","T","_","C","S","U","D">>, eic |-> <<"1","0","Y","1","0","0","1","A","1","0","0","1","A","7","1","M">>, name |-> <<"I","t","a","l","y"," ","(","C","e","n","t","r","a","l"," ","S","o","u","t","h",")">>],
     [key |-> <<"I","T","_","S","U","D">>, eic |-> <<"1","0","Y","1","0","0","1","A","1","0","0","1","A","7","8","8">>, name |-> <<"I","t","a","l","y"," ","(","S","o","u","t","h",")">>],
     [key |-> <<"I","T","_","S","I","C","I">>, eic |-> <<"1","0","Y","1","0","0","1","A","1","0","0","1","A","7","4","G">>, name |-> <<"I","t","a","l","y"," ","(","S","i","c","i","l","y",")">>],
     [key |-> <<"I","T","_","S","A","R","D">>, eic |-> <<"1","0","Y","1","0","0","1","A","1","0","0","1","A","7","5","E">>, name |-> <<"I","t","a","l","y"," ","(","S","a","r","d","i","n","i","a",")">>],
     [key |-> <<"L","T">>, eic |-> <<"1","0","Y","L","T","-","1","0","0","1","A","0","0","0","8","Q">>, name |-> <<"L","i","t","h","u","a","n","i","a">>],
     [key |-> <<"L","U">>, eic |-> <<"1","0","Y","L","U","-","C","E","G","E","D","E","L","-","N","Q">>, name |-> <<"L","u","x","e","m","b","o","u","r","g">>],
     [key |-> <<"L","V">>, eic |-> <<"1","0","Y","L","V","-","1","0","0","1","A","0","0","0","7","4">>, name |-> <<"L","a","t","v","i","a">>],
     [key |-> <<"M","E">>, eic |-> <<"1","0","Y","C","S","-","C","G","-","T","S","O","-","-","-","S">>, name |-> <<"M","o","n","t","e","n","e","g","r","o">>],
     [key |-> <<"M","K">>, eic |-> <<"1","0","Y","M","K","-","M","E","P","S","O","-","-","-","-","8">>, name |-> <<"N","o","r","t","h"," ","M","a","c","e","d","o","n","i","a">>],
     [key |-> <<"M","T">>, eic |-> <<"1","0","Y","1","0","0","1","A","1","0","0","1","A","9","3","C">>, name |-> <<"M","a","l","t","a">>],
     [key |-> <<"N","L">>, eic |-> <<"1","0","Y","N","L","-","-","-","-","-","-","-","-","-","-","L">>, name |-> <<"N","e","t","h","e","r","l","a","n","d","s">>],
     [key |-> <<"N","O">>, eic |-> <<"1","0","Y","N","O","-","0","-","-","-","-","-","-","-","-","C">>, name |-> <<"N","o","r","w","a","y">>],
     [key |-> <<"N","O","_","1">>, eic |-> <<"1","0","Y","N","O","-","1","-","-","-","-","-","-","-","-","2">>, name |-> <<"N","o","r","w","a","y"," ","(","S","o","u","t","h","-","E","a","s","t",")">>],
     [key |-> <<"N","O","_","2">>, eic |-> <<"1","0","Y","N","O","-","2","-","-","-","-","-","-","-","-","T">>, name |-> <<"N","o","r","w","a","y"," ","(","S","o","u","t","h","-","W","e","s","t",")">>],
     [key |-> <<"N","O","_","3">>, eic |-> <<"1","0","Y","N","O","-","3","-","-","-","-","-","-","-","-","J">>, name |-> <<"N","o","r","w","a","y"," ","(","C","e","n","t","r","a","l",")">>],
     [key |-> <<"N","O","_","4">>, eic |-> <<"1","0","Y","N","O","-","4","-","-","-","-","-","-","-","-","9">>, name |-> <<"N","o","r","w","a","y"," ","(","N","o","r","t","h",")">>],
     [key |-> <<"N","O","_","5">>, eic |-> <<"1","0","Y","1","0","0","1","A","1","0","0","1","A","4","8","H">>, name |-> <<"N","o","r","w","a","y"," ","(","W","e","s","t",")">>],
     [key |-> <<"P","L">>, eic |-> <<"1","0","Y","P","L","-","A","R","E","A","-","-","-","-","-","S">>, name |-> <<"P","o","l","a","n","d">>],
     [key |-> <<"P","T">>, eic |-> <<"1","0","Y","P","T","-","R","E","N","-","-","-","-","-","-","W">>, name |-> <<"P","o","r","t","u","g","a","l">>],
     [key |-> <<"R","O">>, eic |-> <<"1","0","Y","R","O","-","T","E","L","-","-","-","-","-","-","P">>, name |-> <<"R","o","m","a","n","i","a">>],
     [key |-> <<"R","S">>, eic |-> <<"1","0","Y","C","S","-","S","E","R","B","I","A","T","S","O","V">>, name |-> <<"S","e","r","b","i","a">>],
     [key |-> <<"S","E">>, eic |-> <<"1","0","Y","S","E","-","1","-","-","-","-","-","-","-","-","K">>, name |-> <<"S","w","e","d","e","n">>],
     [key |-> <<"S","E","_","1">>, eic |-> <<"1","0","Y","1","0","0","1","A","1","0","0","1","A","4","4","P">>, name |-> <<"S","w","e","d","e","n"," ","(","L","u","l","e","a-ring",")">>],
     [key |-> <<"S","E","_","2">>, eic |-> <<"1","0","Y","1","0","0","1","A","1","0","0","1","A","4","5","N">>, name |-> <<"S","w","e","d","e","n"," ","(","S","u","n","d","s","v","a","l","l",")">>],
     [key |-> <<"S","E","_","3">>, eic |-> <<"1","0","Y","1","0","0","1","A","1","0","0","1","A","4","6","L">>, name |-> <<"S","w","e","d","e","n"," ","(","S","t","o","c","k","h","o","l","m",")">>],
     [key |-> <<"S","E","_","4">>, eic |-> <<"1","0","Y","1","0","0","1","A","1","0","0","1","A","4","7","J">>, name |-> <<"S","w","e","d","e","n"," ","(","M","a","l","m","o-uml",")">>],
     [key |-> <<"S","I">>, eic |-> <<"1","0","Y","S","I","-","E","L","E","S","-","-","-","-","-","O">>, name |-> <<"S","l","o","v","e","n","i","a">>],
     [key |-> <<"S","K">>, eic |-> <<"1","0","Y","S","K","-","S","E","P","S","-","-","-","-","-","K">>, name |-> <<"S","l","o","v","a","k","i","a">>],
     [key |-> <<"T","R">>, eic |-> <<"1","0","Y","T","R","-","T","E","I","A","S","-","-","-","-","W">>, name |-> <<"T","u","r","k","e","y">>],
     [key |-> <<"U","A">>, eic |-> <<"1","0","Y","1","0","0","1","C","-","-","0","0","0","0","3","F">>, name |-> <<"U","k","r","a","i","n","e">>],
     [key |-> <<"U","K">>, eic |-> <<"1","0","Y","1","0","0","1","A","1","0","0","1","A","9","2","E">>, name |-> <<"U","n","i","t","e","d"," ","K","i","n","g","d","o","m">>],
     [key |-> <<"X","K">>, eic |-> <<"1","0","Y","1","0","0","1","C","-","-","0","0","1","0","0","H">>, name |-> <<"K","o","s","o","v","o">>] >>

PSR_TYPES ==
  << [code |-> <<"B","0","1">>, name |-> <<"B","i","o","m","a","s","s">>, slug |-> <<"b","i","o","m","a","s","s">>],
     [code |-> <<"B","0","2">>, name |-> <<"F","o","s","s","i","l"," ","B","r","o","w","n"," ","c","o","a","l","/","L","i","g","n","i","t","e">>, slug |-> <<"l","i","g","n","i","t","e">>],
     [code |-> <<"B","0","3">>, name |-> <<"F","o","s","s","i","l"," ","C","o","a","l","-","d","e","r","i","v","e","d"," ","g","a","s">>, slug |-> <<"c","o","a","l","_","g","a","s">>],
     [code |-> <<"B","0","4">>, name |-> <<"F","o","s","s","i","l"," ","G","a","s">>, slug |-> <<"g","a","s">>],
     [code |-> <<"B","0","5">>, name |-> <<"F","o","s","s","i","l"," ","H","a","r","d"," ","c","o","a","l">>, slug |-> <<"h","a","r","d","_","c","o","a","l">>],
     [code |-> <<"B","0","6">>, name |-> <<"F","o","s","s","i","l"," ","O","i","l">>, slug |-> <<"o","i","l">>],
     [code |-> <<"B","0","7">>, name |-> <<"F","o","s","s","i","l"," ","O","i","l"," ","s","h","a","l","e">>, slug |-> <<"o","i","l","_","s","h","a","l","e">>],
     [code |-> <<"B","0","8">>, name |-> <<"F","o","s","s","i","l"," ","P","e","a","t">>, slug |-> <<"p","e","a","t">>],
     [code |-> <<"B","0","9">>, name |-> <<"G","e","o","t","h","e","r","m","a","l">>, slug |-> <<"g","e","o","t","h","e","r","m","a","l">>],
     [code |-> <<"B","1","0">>, name |-> <<"H","y","d","r","o"," ","P","u","m","p","e","d"," ","S","t","o","r","a","g","e">>, slug |-> <<"p","u","m","p","e","d","_","s","t","o","r","a","g","e">>],
     [code |-> <<"B","1","1">>, name |-> <<"H","y","d","r","o"," ","R","u","n","-","o","f","-","r","i","v","e","r"," ","a","n","d"," ","p","o","u","n","d","a","g","e">>, slug |-> <<"r","u","n","_","o","f","_","r","i","v","e","r">>],
     [code |-> <<"B","1","2">>, name |-> <<"H","y","d","r","o"," ","W","a","t","e","r"," ","R","e","s","e","r","v","o","i","r">>, slug |-> <<"h","y","d","r","o","_","r","e","s","e","r","v","o","i","r">>],
     [code |-> <<"B","1","3">>, name |-> <<"M","a","r","i","n","e">>, slug |-> <<"m","a","r","i","n","e">>],
     [code |-> <<"B","1","4">>, name |-> <<"N","u","c","l","e","a","r">>, slug |-> <<"n","u","c","l","e","a","r">>],
     [code |-> <<"B","1","5">>, name |-> <<"O","t","h","e","r"," ","r","e","n","e","w","a","b","l","e">>, slug |-> <<"o","t","h","e","r","_","r","e","n","e","w","a","b","l","e">>],
     [code |-> <<"B","1","6">>, name |-> <<"S","o","l","a","r">>, slug |-> <<"s","o","l","a","r">>],
     [code |-> <<"B","1","7">>, name |-> <<"W","a","s","t","e">>, slug |-> <<"w","a","s","t","e">>],
     [code |-> <<"B","1","8">>, name |-> <<"W","i","n","d"," ","O","f","f","s","h","o","r","e">>, slug |-> <<"w","i","n","d","_","o","f","f","s","h","o","r","e">>],
     [code |-> <<"B","1","9">>, name |-> <<"W","i","n","d"," ","O","n","s","h","o","r","e">>, slug |-> <<"w","i","n","d","_","o","n","s","h","o","r","e">>],
     [code |-> <<"B","2","0">>, name |-> <<"O","t","h","e","r">>, slug |-> <<"o","t","h","e","r">>] >>

PROCESS_TYPES ==
  << [code |-> <<"A","0","1">>, name |-> <<"D","a","y"," ","a","h","e","a","d">>, slug |-> <<"d","a","y","_","a","h","e","a","d">>],
     [code |-> <<"A","0","2">>, name |-> <<"I","n","t","r","a","d","a","y"," ","i","n","c","r","e","m","e","n","t","a","l">>, slug |-> <<"i","n","t","r","a","d","a","y","_","i","n","c","r","e","m","e","n","t","a","l">>],
     [code |-> <<"A","1","6">>, name |-> <<"R","e","a","l","i","s","e","d">>, slug |-> <<"r","e","a","l","i","s","e","d">>],
     [code |-> <<"A","1","8">>, name |-> <<"I","n","t","r","a","d","a","y"," ","t","o","t","a","l">>, slug |-> <<"i","n","t","r","a","d","a","y","_","t","o","t","a","l">>],
     [code |-> <<"A","3","1">>, name |-> <<"W","e","e","k"," ","a","h","e","a","d">>, slug |-> <<"w","e","e","k","_","a","h","e","a","d">>],
     [code |-> <<"A","3","2">>, name |-> <<"M","o","n","t","h"," ","a","h","e","a","d">>, slug |-> <<"m","o","n","t","h","_","a","h","e","a","d">>],
     [code |-> <<"A","3","3">>, name |-> <<"Y","e","a","r"," ","a","h","e","a","d">>, slug |-> <<"y","e","a","r","_","a","h","e","a","d">>],
     [code |-> <<"A","3","9">>, name |-> <<"S","y","n","c","h","r","o","n","i","s","a","t","i","o","n"," ","p","r","o","c","e","s","s">>, slug |-> <<"s","y","n","c","h","r","o","n","i","s","a","t","i","o","n">>],
     [code |-> <<"A","4","0">>, name |-> <<"I","n","t","r","a","d","a","y"," ","p","r","o","c","e","s","s">>, slug |-> <<"i","n","t","r","a","d","a","y","_","p","r","o","c","e","s","s">>],
     [code |-> <<"A","4","6">>, name |-> <<"R","e","p","l","a","c","e","m","e","n","t"," ","r","e","s","e","r","v","e">>, slug |-> <<"r","e","p","l","a","c","e","m","e","n","t","_","r","e","s","e","r","v","e">>],
     [code |-> <<"A","4","7">>, name |-> <<"m","F","R","R">>, slug |-> <<"m","f","r","r">>],
     [code |-> <<"A","5","1">>, name |-> <<"a","F","R","R">>, slug |-> <<"a","f","r","r">>],
     [code |-> <<"A","5","2">>, name |-> <<"F","C","R">>, slug |-> <<"f","c","r">>],
     [code |-> <<"A","5","6">>, name |-> <<"F","r","e","q","u","e","n","c","y"," ","n","e","t","t","i","n","g">>, slug |-> <<"f","r","e","q","u","e","n","c","y","_","n","e","t","t","i","n","g">>] >>

DOCUMENT_TYPES ==
  << [code |-> <<"A","0","9">>, name |-> <<"F","i","n","a","l","i","s","e","d"," ","s","c","h","e","d","u","l","e">>, slug |-> <<"s","c","h","e","d","u","l","e","d","_","e","x","c","h","a","n","g","e","s">>],
     [code |-> <<"A","1","1">>, name |-> <<"A","g","g","r","e","g","a","t","e","d"," ","e","n","e","r","g","y"," ","d","a","t","a"," ","r","e","p","o","r","t">>, slug |-> <<"p","h","y","s","i","c","a","l","_","c","r","o","s","s","b","o","r","d","e","r","_","f","l","o","w","s">>],
     [code |-> <<"A","2","5">>, name |-> <<"A","l","l","o","c","a","t","i","o","n"," ","r","e","s","u","l","t"," ","d","o","c","u","m","e","n","t">>, slug |-> <<"a","l","l","o","c","a","t","i","o","n","_","r","e","s","u","l","t">>],
     [code |-> <<"A","2","6">>, name |-> <<"C","a","p","a","c","i","t","y"," ","d","o","c","u","m","e","n","t">>, slug |-> <<"c","a","p","a","c","i","t","y">>],
     [code |-> <<"A","3","1">>, name |-> <<"A","g","r","e","e","d"," ","c","a","p","a","c","i","t","y">>, slug |-> <<"a","g","r","e","e","d","_","c","a","p","a","c","i","t","y">>],
     [code |-> <<"A","4","4">>, name |-> <<"P","r","i","c","e"," ","d","o","c","u","m","e","n","t">>, slug |-> <<"d","a","y","_","a","h","e","a","d","_","p","r","i","c","e","s">>],
     [code |-> <<"A","6","1">>, name |-> <<"E","s","t","i","m","a","t","e","d"," ","N","e","t"," ","T","r","a","n","s","f","e","r"," ","C","a","p","a","c","i","t","y">>, slug |-> <<"n","e","t","_","t","r","a","n","s","f","e","r","_","c","a","p","a","c","i","t","y">>],
     [code |-> <<"A","6","3">>, name |-> <<"R","e","d","i","s","p","a","t","c","h"," ","n","o","t","i","c","e">>, slug |-> <<"r","e","d","i","s","p","a","t","c","h","_","n","o","t","i","c","e">>],
     [code |-> <<"A","6","5">>, name |-> <<"S","y","s","t","e","m"," ","t","o","t","a","l"," ","l","o","a","d">>, slug |-> <<"a","c","t","u","a","l","_","l","o","a","d">>],
     [code |-> <<"A","6","8">>, name |-> <<"I","n","s","t","a","l","l","e","d"," ","g","e","n","e","r","a","t","i","o","n"," ","p","e","r"," ","t","y","p","e">>, slug |-> <<"i","n","s","t","a","l","l","e","d","_","c","a","p","a","c","i","t","y">>],
     [code |-> <<"A","6","9">>, name |-> <<"W","i","n","d"," ","a","n","d"," ","s","o","l","a","r"," ","f","o","r","e","c","a","s","t">>, slug |-> <<"g","e","n","e","r","a","t","i","o","n","_","f","o","r","e","c","a","s","t","_","w","i","n","d","_","s","o","l","a","r">>],
     [code |-> <<"A","7","0">>, name |-> <<"L","o","a","d"," ","f","o","r","e","c","a","s","t"," ","m","a","r","g","i","n">>, slug |-> <<"l","o","a","d","_","f","o","r","e","c","a","s","t","_","m","a","r","g","i","n">>],
     [code |-> <<"A","7","1">>, name |-> <<"G","e","n","e","r","a","t","i","o","n"," ","f","o","r","e","c","a","s","t">>, slug |-> <<"g","e","n","e","r","a","t","i","o","n","_","f","o","r","e","c","a","s","t">>],
     [code |-> <<"A","7","3">>, name |-> <<"A","c","t","u","a","l"," ","g","e","n","e","r","a","t","i","o","n"," ","p","e","r"," ","u","n","i","t">>, slug |-> <<"a","c","t","u","a","l","_","g","e","n","e","r","a","t","i","o","n","_","p","e","r","_","p","l","a","n","t">>],
     [code |-> <<"A","7","4">>, name |-> <<"W","i","n","d"," ","a","n","d"," ","s","o","l","a","r"," ","g","e","n","e","r","a","t","i","o","n">>, slug |-> <<"w","i","n","d","_","s","o","l","a","r","_","g","e","n","e","r","a","t","i","o","n">>],
     [code |-> <<"A","7","5">>, name |-> <<"A","c","t","u","a","l"," ","g","e","n","e","r","a","t","i","o","n"," ","p","e","r"," ","t","y","p","e">>, slug |-> <<"a","c","t","u","a","l","_","g","e","n","e","r","a","t","i","o","n","_","p","e","r","_","t","y","p","e">>],
     [code |-> <<"A","7","6">>, name |-> <<"L","o","a","d"," ","u","n","a","v","a","i","l","a","b","i","l","i","t","y">>, slug |-> <<"l","o","a","d","_","u","n","a","v","a","i","l","a","b","i","l","i","t","y">>],
     [code |-> <<"A","7","7">>, name |-> <<"P","r","o","d","u","c","t","i","o","n"," ","u","n","a","v","a","i","l","a","b","i","l","i","t","y">>, slug |-> <<"p","r","o","d","u","c","t","i","o","n","_","u","n","a","v","a","i","l","a","b","i","l","i","t","y">>],
     [code |-> <<"A","7","8">>, name |-> <<"T","r","a","n","s","m","i","s","s","i","o","n"," ","u","n","a","v","a","i","l","a","b","i","l","i","t","y">>, slug |-> <<"t","r","a","n","s","m","i","s","s","i","o","n","_","u","n","a","v","a","i","l","a","b","i","l","i","t","y">>],
     [code |-> <<"A","7","9">>, name |-> <<"O","f","f","s","h","o","r","e"," ","u","n","a","v","a","i","l","a","b","i","l","i","t","y">>, slug |-> <<"o","f","f","s","h","o","r","e","_","u","n","a","v","a","i","l","a","b","i","l","i","t","y">>],
     [code |-> <<"A","8","0">>, name |-> <<"G","e","n","e","r","a","t","i","o","n"," ","u","n","a","v","a","i","l","a","b","i","l","i","t","y">>, slug |-> <<"g","e","n","e","r","a","t","i","o","n","_","u","n","a","v","a","i","l","a","b","i","l","i","t","y">>],
     [code |-> <<"A","8","1">>, name |-> <<"C","o","n","t","r","a","c","t","e","d"," ","r","e","s","e","r","v","e","s">>, slug |-> <<"c","o","n","t","r","a","c","t","e","d","_","r","e","s","e","r","v","e","_","p","r","i","c","e","s">>],
     [code |-> <<"A","8","2">>, name |-> <<"A","c","c","e","p","t","e","d"," ","a","g","g","r","e","g","a","t","e","d"," ","o","f","f","e","r","s">>, slug |-> <<"a","c","c","e","p","t","e","d","_","o","f","f","e","r","s">>],
     [code |-> <<"A","8","3">>, name |-> <<"A","c","t","i","v","a","t","e","d"," ","b","a","l","a","n","c","i","n","g"," ","q","u","a","n","t","i","t","i","e","s">>, slug |-> <<"a","c","t","i","v","a","t","e","d","_","b","a","l","a","n","c","i","n","g","_","q","u","a","n","t","i","t","i","e","s">>],
     [code |-> <<"A","8","4">>, name |-> <<"A","c","t","i","v","a","t","e","d"," ","b","a","l","a","n","c","i","n","g"," ","e","n","e","r","g","y"," ","p","r","i","c","e","s">>, slug |-> <<"a","c","t","i","v","a","t","e","d","_","b","a","l","a","n","c","i","n","g","_","e","n","e","r","g","y","_","p","r","i","c","e","s">>],
     [code |-> <<"A","8","5">>, name |-> <<"I","m","b","a","l","a","n","c","e"," ","p","r","i","c","e","s">>, slug |-> <<"i","m","b","a","l","a","n","c","e","_","p","r","i","c","e","s">>],
     [code |-> <<"A","8","6">>, name |-> <<"I","m","b","a","l","a","n","c","e"," ","v","o","l","u","m","e","s">>, slug |-> <<"i","m","b","a","l","a","n","c","e","_","v","o","l","u","m","e","s">>],
     [code |-> <<"A","8","7">>, name |-> <<"F","i","n","a","n","c","i","a","l"," ","e","x","p","e","n","s","e","s">>, slug |-> <<"f","i","n","a","n","c","i","a","l","_","e","x","p","e","n","s","e","s">>],
     [code |-> <<"A","8","8">>, name |-> <<"C","r","o","s","s","-","b","o","r","d","e","r"," ","b","a","l","a","n","c","i","n","g">>, slug |-> <<"c","r","o","s","s","_","b","o","r","d","e","r","_","b","a","l","a","n","c","i","n","g">>],
     [code |-> <<"A","8","9">>, name |-> <<"C","o","n","t","r","a","c","t","e","d"," ","r","e","s","e","r","v","e"," ","p","r","i","c","e","s">>, slug |-> <<"c","o","n","t","r","a","c","t","e","d","_","r","e","s","e","r","v","e","_","p","r","i","c","e","s","_","d","e","t","a","i","l">>],
     [code |-> <<"A","9","0">>, name |-> <<"I","n","t","e","r","c","o","n","n","e","c","t","i","o","n"," ","N","T","C"," ","D","A">>, slug |-> <<"i","n","t","e","r","c","o","n","n","e","c","t","i","o","n","_","n","t","c","_","d","a">>],
     [code |-> <<"A","9","1">>, name |-> <<"H","V","D","C"," ","a","v","a","i","l","a","b","i","l","i","t","y">>, slug |-> <<"h","v","d","c","_","a","v","a","i","l","a","b","i","l","i","t","y">>],
     [code |-> <<"A","9","2">>, name |-> <<"H","V","D","C"," ","p","l","a","n","n","e","d"," ","u","n","a","v","a","i","l","a","b","i","l","i","t","y">>, slug |-> <<"h","v","d","c","_","p","l","a","n","n","e","d","_","u","n","a","v","a","i","l","a","b","i","l","i","t","y">>],
     [code |-> <<"A","9","3">>, name |-> <<"H","V","D","C"," ","f","o","r","c","e","d"," ","u","n","a","v","a","i","l","a","b","i","l","i","t","y">>, slug |-> <<"h","v","d","c","_","f","o","r","c","e","d","_","u","n","a","v","a","i","l","a","b","i","l","i","t","y">>],
     [code |-> <<"A","9","4">>, name |-> <<"C","r","o","s","s","-","b","o","r","d","e","r"," ","e","x","c","h","a","n","g","e"," ","f","o","r","e","c","a","s","t">>, slug |-> <<"c","r","o","s","s","_","b","o","r","d","e","r","_","f","o","r","e","c","a","s","t">>],
     [code |-> <<"A","9","5">>, name |-> <<"E","x","p","a","n","s","i","o","n"," ","a","n","d"," ","d","i","s","m","a","n","t","l","i","n","g">>, slug |-> <<"e","x","p","a","n","s","i","o","n","_","d","i","s","m","a","n","t","l","i","n","g">>],
     [code |-> <<"B","1","1">>, name |-> <<"A","g","g","r","e","g","a","t","e","d"," ","f","i","l","l","i","n","g"," ","r","a","t","e">>, slug |-> <<"a","g","g","r","e","g","a","t","e","d","_","f","i","l","l","i","n","g","_","r","a","t","e">>] >>

PRICE_CATEGORIES ==
  << [code |-> <<"A","0","4">>, name |-> <<"L","o","n","g">>, slug |-> <<"l","o","n","g">>],
     [code |-> <<"A","0","5">>, name |-> <<"S","h","o","r","t">>, slug |-> <<"s","h","o","r","t">>],
     [code |-> <<"A","0","6">>, name |-> <<"A","v","e","r","a","g","e"," ","b","i","d"," ","p","r","i","c","e">>, slug |-> <<"a","v","e","r","a","g","e","_","b","i","d","_","p","r","i","c","e">>],
     [code |-> <<"A","0","7">>, name |-> <<"M","a","r","g","i","n","a","l"," ","b","i","d"," ","p","r","i","c","e">>, slug |-> <<"m","a","r","g","i","n","a","l","_","b","i","d","_","p","r","i","c","e">>] >>

BUSINESS_TYPES ==
  << [code |-> <<"A","2","5">>, name |-> <<"G","e","n","e","r","a","l"," ","c","a","p","a","c","i","t","y"," ","i","n","f","o","r","m","a","t","i","o","n">>, slug |-> <<"g","e","n","e","r","a","l","_","c","a","p","a","c","i","t","y">>],
     [code |-> <<"A","2","9">>, name |-> <<"A","l","r","e","a","d","y"," ","a","l","l","o","c","a","t","e","d"," ","c","a","p","a","c","i","t","y"," ","(","A","A","C",")">>, slug |-> <<"a","a","c">>],
     [code |-> <<"A","4","3">>, name |-> <<"R","e","q","u","e","s","t","e","d"," ","c","a","p","a","c","i","t","y"," ","(","w","i","t","h","o","u","t"," ","p","r","i","c","e",")">>, slug |-> <<"r","e","q","u","e","s","t","e","d","_","c","a","p","a","c","i","t","y">>],
     [code |-> <<"A","4","6">>, name |-> <<"S","y","s","t","e","m"," ","O","p","e","r","a","t","o","r"," ","r","e","d","i","s","p","a","t","c","h","i","n","g">>, slug |-> <<"s","o","_","r","e","d","i","s","p","a","t","c","h","i","n","g">>],
     [code |-> <<"A","5","3">>, name |-> <<"P","l","a","n","n","e","d"," ","m","a","i","n","t","e","n","a","n","c","e">>, slug |-> <<"p","l","a","n","n","e","d","_","m","a","i","n","t","e","n","a","n","c","e">>],
     [code |-> <<"A","5","4">>, name |-> <<"U","n","p","l","a","n","n","e","d"," ","o","u","t","a","g","e">>, slug |-> <<"u","n","p","l","a","n","n","e","d","_","o","u","t","a","g","e">>],
     [code |-> <<"A","8","5">>, name |-> <<"I","n","t","e","r","n","a","l"," ","r","e","d","i","s","p","a","t","c","h">>, slug |-> <<"i","n","t","e","r","n","a","l","_","r","e","d","i","s","p","a","t","c","h">>],
     [code |-> <<"A","9","5">>, name |-> <<"F","r","e","q","u","e","n","c","y"," ","c","o","n","t","a","i","n","m","e","n","t"," ","r","e","s","e","r","v","e">>, slug |-> <<"f","c","r">>],
     [code |-> <<"A","9","6">>, name |-> <<"A","u","t","o","m","a","t","i","c"," ","f","r","e","q","u","e","n","c","y"," ","r","e","s","t","o","r","a","t","i","o","n"," ","r","e","s","e","r","v","e">>, slug |-> <<"a","f","r","r">>],
     [code |-> <<"A","9","7">>, name |-> <<"M","a","n","u","a","l"," ","f","r","e","q","u","e","n","c","y"," ","r","e","s","t","o","r","a","t","i","o","n"," ","r","e","s","e","r","v","e">>, slug |-> <<"m","f","r","r">>],
     [code |-> <<"A","9","8">>, name |-> <<"R","e","p","l","a","c","e","m","e","n","t"," ","r","e","s","e","r","v","e">>, slug |-> <<"r","r">>],
     [code |-> <<"B","9","5">>, name |-> <<"P","r","o","c","u","r","e","d"," ","c","a","p","a","c","i","t","y">>, slug |-> <<"p","r","o","c","u","r","e","d","_","c","a","p","a","c","i","t","y">>],
     [code |-> <<"C","2","2">>, name |-> <<"S","h","a","r","e","d"," ","b","a","l","a","n","c","i","n","g"," ","r","e","s","e","r","v","e"," ","c","a","p","a","c","i","t","y">>, slug |-> <<"s","h","a","r","e","d","_","r","e","s","e","r","v","e">>],
     [code |-> <<"C","2","3">>, name |-> <<"S","h","a","r","e"," ","o","f"," ","r","e","s","e","r","v","e"," ","c","a","p","a","c","i","t","y">>, slug |-> <<"s","h","a","r","e","_","r","e","s","e","r","v","e">>],
     [code |-> <<"C","2","4">>, name |-> <<"A","c","t","u","a","l"," ","r","e","s","e","r","v","e"," ","c","a","p","a","c","i","t","y">>, slug |-> <<"a","c","t","u","a","l","_","r","e","s","e","r","v","e">>] >>

MARKET_AGREEMENT_TYPES ==
  << [code |-> <<"A","0","1">>, name |-> <<"D","a","i","l","y">>, slug |-> <<"d","a","i","l","y">>],
     [code |-> <<"A","0","2">>, name |-> <<"W","e","e","k","l","y">>, slug |-> <<"w","e","e","k","l","y">>],
     [code |-> <<"A","0","3">>, name |-> <<"M","o","n","t","h","l","y">>, slug |-> <<"m","o","n","t","h","l","y">>],
     [code |-> <<"A","0","4">>, name |-> <<"Y","e","a","r","l","y">>, slug |-> <<"y","e","a","r","l","y">>],
     [code |-> <<"A","0","5">>, name |-> <<"T","o","t","a","l">>, slug |-> <<"t","o","t","a","l">>],
     [code |-> <<"A","0","6">>, name |-> <<"L","o","n","g"," ","t","e","r","m">>, slug |-> <<"l","o","n","g","_","t","e","r","m">>],
     [code |-> <<"A","0","7">>, name |-> <<"I","n","t","r","a","d","a","y">>, slug |-> <<"i","n","t","r","a","d","a","y">>],
     [code |-> <<"A","1","3">>, name |-> <<"H","o","u","r","l","y">>, slug |-> <<"h","o","u","r","l","y">>] >>

DOC_STATUS ==
  << [code |-> <<"A","0","1">>, name |-> <<"I","n","t","e","r","m","e","d","i","a","t","e">>, slug |-> <<"i","n","t","e","r","m","e","d","i","a","t","e">>],
     [code |-> <<"A","0","2">>, name |-> <<"F","i","n","a","l">>, slug |-> <<"f","i","n","a","l">>],
     [code |-> <<"A","0","5">>, name |-> <<"A","c","t","i","v","e">>, slug |-> <<"a","c","t","i","v","e">>],
     [code |-> <<"A","0","9">>, name |-> <<"C","a","n","c","e","l","l","e","d">>, slug |-> <<"c","a","n","c","e","l","l","e","d">>],
     [code |-> <<"A","1","3">>, name |-> <<"W","i","t","h","d","r","a","w","n">>, slug |-> <<"w","i","t","h","d","r","a","w","n">>],
     [code |-> <<"X","0","1">>, name |-> <<"E","s","t","i","m","a","t","e","d">>, slug |-> <<"e","s","t","i","m","a","t","e","d">>] >>

Registry(name) ==
  CASE name = "PSR_TYPES" -> PSR_TYPES
    [] name = "PROCESS_TYPES" -> PROCESS_TYPES
    [] name = "DOCUMENT_TYPES" -> DOCUMENT_TYPES
    [] name = "PRICE_CATEGORIES" -> PRICE_CATEGORIES
    [] name = "BUSINESS_TYPES" -> BUSINESS_TYPES
    [] name = "MARKET_AGREEMENT_TYPES" -> MARKET_AGREEMENT_TYPES
    [] name = "DOC_STATUS" -> DOC_STATUS

RegistryNames ==
  {"PSR_TYPES", "PROCESS_TYPES", "DOCUMENT_TYPES", "PRICE_CATEGORIES",
   "BUSINESS_TYPES", "MARKET_AGREEMENT_TYPES", "DOC_STATUS"}

\* A dict built from (key, value) pairs: a later pair overwrites an earlier one.
DictHas(pairs, k) == \E i \in 1..Len(pairs) : pairs[i][1] = k

DictGet(pairs, k) ==
  LET hits == {i \in 1..Len(pairs) : pairs[i][1] = k}
      last == CHOOSE i \in hits : \A j \in hits : j <= i
  IN  pairs[last][2]

DictKeys(pairs) ==
  LET firstAt(i) == \A j \in 1..(i-1) : pairs[j][1] # pairs[i][1]
      kept == SelectSeq([i \in 1..Len(pairs) |-> <<i, pairs[i][1]>>],
                        LAMBDA p : firstAt(p[1]))
  IN  [i \in 1..Len(kept) |-> kept[i][2]]

AREA_CODES == [i \in 1..Len(AREAS) |-> <<AREAS[i].key, AREAS[i].eic>>]

COUNTRY_NAMES == [i \in 1..Len(AREAS) |-> <<AREAS[i].key, AREAS[i].name>>]

EIC_TO_ISO == [i \in 1..Len(AREAS) |-> <<AREAS[i].eic, AREAS[i].key>>]

\* the index keyed by the display names written with underscores
_NAME_TO_ISO_underscored ==
  [i \in 1..Len(AREAS) |-> <<replace(lower(AREAS[i].name), " ", "_"), AREAS[i].key>>]

_NAME_TO_ISO == [i \in 1..Len(AREAS) |-> <<lower(AREAS[i].name), AREAS[i].key>>]

PSR_CODES == [i \in 1..Len(PSR_TYPES) |-> <<PSR_TYPES[i].slug, PSR_TYPES[i].code>>]

_PSR_NAME_TO_CODE ==
  [i \in 1..Len(PSR_TYPES) |-> <<lower(PSR_TYPES[i].name), PSR_TYPES[i].code>>] \o PSR_CODES

\* ------------------------------------------------------------------------
\* Resolver outcomes
\* ------------------------------------------------------------------------

Pending == [kind |-> "pending", value |-> <<>>, head |-> "", available |-> <<>>]

Return(v) == [kind |-> "ok", value |-> v, head |-> "", available |-> <<>>]

Raise(exc, head, items) == [kind |-> exc, value |-> <<>>, head |-> head, available |-> items]

\* f"{e['slug']} ({code})"
SlugAndCode(e) == e.slug \o <<" ", "(">> \o e.code \o <<")">>

EntryByCode(registry, code) == registry[CHOOSE i \in 1..Len(registry) : registry[i].code = code]

RegistryCodes(registry) == [i \in 1..Len(registry) |-> registry[i].code]

\* the items of ", ".join(f"{e['slug']} ({code})" for code, e in sorted(registry.items()))
Available(registry) ==
  LET codes == sorted(RegistryCodes(registry))
  IN  [i \in 1..Len(codes) |-> SlugAndCode(EntryByCode(registry, codes[i]))]

\* _resolve with step 3 comparing the display name without lower-casing it
_resolve_nameAsIs(registry, identifier) ==
  LET id_lower == strip(lower(identifier))
      bySlug == {i \in 1..Len(registry) : registry[i].slug = id_lower}
      byName == {i \in 1..Len(registry) : registry[i].name = id_lower}
      first(S) == CHOOSE i \in S : \A j \in S : i <= j
  IN  IF \E i \in 1..Len(registry) : registry[i].code = identifier THEN Return(identifier)
      ELSE IF bySlug # {} THEN Return(registry[first(bySlug)].code)
      ELSE IF byName # {} THEN Return(registry[first(byName)].code)
      ELSE Raise("KeyError", "Unknown identifier", Available(registry))

_resolve(registry, identifier) ==
  LET id_lower == strip(lower(identifier))
      bySlug == {i \in 1..Len(registry) : registry[i].slug = id_lower}
      byName == {i \in 1..Len(registry) : lower(registry[i].name) = id_lower}
      first(S) == CHOOSE i \in S : \A j \in S : i <= j
  IN  IF \E i \in 1..Len(registry) : registry[i].code = identifier THEN Return(identifier)
      ELSE IF bySlug # {} THEN Return(registry[first(bySlug)].code)
      ELSE IF byName # {} THEN Return(registry[first(byName)].code)
      ELSE Raise("KeyError", "Unknown identifier", Available(registry))

\* lookup_area without the space-to-underscore replacement of the key
lookup_area_noReplace(identifier) ==
  LET raw == strip(identifier)
      key == upper(raw)
  IN  IF DictHas(AREA_CODES, key) THEN Return(DictGet(AREA_CODES, key))
      ELSE IF DictHas(EIC_TO_ISO, raw) THEN Return(raw)
      ELSE IF DictHas(_NAME_TO_ISO, lower(raw))
           THEN Return(DictGet(AREA_CODES, DictGet(_NAME_TO_ISO, lower(raw))))
      ELSE Raise("InvalidParameterError", "Unknown country", sorted(DictKeys(AREA_CODES)))

lookup_area(identifier) ==
  LET raw == strip(identifier)
      key == replace(upper(raw), " ", "_")
  IN  IF DictHas(AREA_CODES, key) THEN Return(DictGet(AREA_CODES, key))
      ELSE IF DictHas(EIC_TO_ISO, raw) THEN Return(raw)
      ELSE IF DictHas(_NAME_TO_ISO, lower(raw))
           THEN Return(DictGet(AREA_CODES, DictGet(_NAME_TO_ISO, lower(raw))))
      ELSE Raise("InvalidParameterError", "Unknown country", sorted(DictKeys(AREA_CODES)))

lookup_psr(identifier) ==
  LET raw == strip(identifier)
      key == upper(raw)
  IN  IF \E i \in 1..Len(PSR_TYPES) : PSR_TYPES[i].code = key THEN Return(key)
      ELSE IF DictHas(_PSR_NAME_TO_CODE, lower(raw))
           THEN Return(DictGet(_PSR_NAME_TO_CODE, lower(raw)))
      ELSE Raise("InvalidParameterError", "Unknown PSR type",
                 sorted(DictKeys(PSR_CODES)) \o sorted(RegistryCodes(PSR_TYPES)))

\* country_name returning an unknown identifier as it is instead of raising
country_name_asIs(identifier) ==
  LET raw == strip(identifier)
      key == replace(upper(raw), " ", "_")
  IN  IF DictHas(COUNTRY_NAMES, key) THEN Return(DictGet(COUNTRY_NAMES, key))
      ELSE IF DictHas(EIC_TO_ISO, raw)
           THEN LET iso == DictGet(EIC_TO_ISO, raw)
                IN  Return(IF DictHas(COUNTRY_NAMES, iso) THEN DictGet(COUNTRY_NAMES, iso) ELSE iso)
      ELSE IF DictHas(_NAME_TO_ISO, lower(raw))
           THEN Return(DictGet(COUNTRY_NAMES, DictGet(_NAME_TO_ISO, lower(raw))))
      ELSE Return(raw)

country_name(identifier) ==
  LET raw == strip(identifier)
      key == replace(upper(raw), " ", "_")
  IN  IF DictHas(COUNTRY_NAMES, key) THEN Return(DictGet(COUNTRY_NAMES, key))
      ELSE IF DictHas(EIC_TO_ISO, raw)
           THEN LET iso == DictGet(EIC_TO_ISO, raw)
                IN  Return(IF DictHas(COUNTRY_NAMES, iso) THEN DictGet(COUNTRY_NAMES, iso) ELSE iso)
      ELSE IF DictHas(_NAME_TO_ISO, lower(raw))
           THEN Return(DictGet(COUNTRY_NAMES, DictGet(_NAME_TO_ISO, lower(raw))))
      ELSE Raise("InvalidParameterError", "Unknown country", sorted(DictKeys(AREA_CODES)))

Apply(c) ==
  CASE c.fn = "_resolve" -> _resolve(Registry(c.registry), c.identifier)
    [] c.fn = "lookup_area" -> lookup_area(c.identifier)
    [] c.fn = "lookup_psr" -> lookup_psr(c.identifier)
    [] c.fn = "country_name" -> country_name(c.identifier)

\* ------------------------------------------------------------------------
\* Resolver calls explored by SpecResolver
\* ------------------------------------------------------------------------

\* every spelling of s that differs only in letter case and in writing
\* an underscore as a space
RECURSIVE Spellings(_)
Spellings(s) ==
  IF s = <<>> THEN {<<>>}
  ELSE LET c == Head(s)
           alts == {c, lowerChar(c), upperChar(c)} \cup (IF c = "_" THEN {" "} ELSE {})
       IN  {<<a>> \o r : a \in alts, r \in Spellings(Tail(s))}

Pads == {<<>>, <<" ">>}

\* lower case on odd positions, upper case on even ones
alternating(s) == [i \in 1..Len(s) |-> IF i % 2 = 1 THEN lowerChar(s[i]) ELSE upperChar(s[i])]

CaseForms(s) == {s, lower(s), upper(s), alternating(s)}

Junk ==
  { <<"n","o","t","-","a","-","r","e","a","l","-","c","o","d","e">>,
    <<"X","X">>,
    <<>>,
    <<" ">>,
    <<"Z","9","9">>,
    <<"s","o","l","a","r","x">>,
    <<"F","R","A">>,
    <<"1","0","Y","F","R","-","R","T","E","-","-","-","-","-","-","X">> }

Call(fn, registry, identifier, form, idx) ==
  [fn |-> fn, registry |-> registry, identifier |-> identifier,
   origin |-> [form |-> form, idx |-> idx]]

ResolveCalls ==
  UNION { UNION { { Call("_resolve", r, Registry(r)[i].code, "code", i),
                    Call("_resolve", r, Registry(r)[i].slug, "slug", i),
                    Call("_resolve", r, lower(Registry(r)[i].name), "name", i) }
                  : i \in 1..Len(Registry(r)) }
          : r \in RegistryNames }

AreaCalls ==
  UNION { { Call("lookup_area", "AREAS", l \o s \o t, "key", i)
              : s \in Spellings(AREAS[i].key), l \in Pads, t \in Pads }
          \cup { Call("lookup_area", "AREAS", AREAS[i].eic, "eic", i) }
          \cup { Call("lookup_area", "AREAS", n, "name", i) : n \in CaseForms(AREAS[i].name) }
          : i \in 1..Len(AREAS) }

JunkCalls ==
  { Call("_resolve", r, j, "junk", 0) : r \in RegistryNames, j \in Junk }
  \cup { Call(fn, "AREAS", j, "junk", 0) : fn \in {"lookup_area", "country_name"}, j \in Junk }
  \cup { Call("lookup_psr", "PSR_TYPES", j, "junk", 0) : j \in Junk }

\* display names, as they are and with every space written as an underscore,
\* given to lookup_area and country_name
NameCalls ==
  UNION { { Call(fn, "AREAS", n, "name", i)
              : fn \in {"country_name"}, n \in CaseForms(AREAS[i].name) }
          \cup { Call(fn, "AREAS", replace(n, " ", "_"), "name_", i)
                   : fn \in {"lookup_area", "country_name"},
                     n \in {m \in CaseForms(AREAS[i].name) : " " \in Range(m)} }
          : i \in 1..Len(AREAS) }

\* canonical codes written in lower case
LowerCodeCalls ==
  UNION { { Call("_resolve", r, lower(Registry(r)[i].code), "code_lower", i)
              : i \in 1..Len(Registry(r)) }
          : r \in RegistryNames }
  \cup { Call("lookup_psr", "PSR_TYPES", lower(PSR_TYPES[i].code), "code_lower", i)
           : i \in 1..Len(PSR_TYPES) }
  \cup { Call("lookup_area", "AREAS", lower(AREAS[i].eic), "code_lower", i)
           : i \in 1..Len(AREAS) }

NoDoc == [Reason |-> [present |-> FALSE, text |-> [present |-> FALSE, text |-> <<>>]], series |-> <<>>]

NotParsed == [kind |-> "pending", rows |-> <<>>, message |-> ""]

NoTime == [t |-> 0, aware |-> FALSE]

NoResult == [kind |-> "none", status |-> 0, message |-> "", value |-> [list |-> FALSE, items |-> <<>>]]

\* str | list[str] | None: an argument that is one identifier, a list, or absent
NoArg == [given |-> FALSE, list |-> FALSE, items |-> <<>>]

One(v) == [given |-> TRUE, list |-> FALSE, items |-> <<v>>]

Many(vs) == [given |-> TRUE, list |-> TRUE, items |-> vs]

NoFrame == [kind |-> "none", rows |-> <<>>]

\* a namespace on which no query has been started
NsIdle ==
  [pc |-> "idle", method |-> "none", country |-> NoArg, other |-> NoArg,
   plan |-> <<>>, i |-> 0, requests |-> <<>>, outcomes |-> <<>>, frames |-> <<>>,
   result |-> NoFrame]

\* no timestamp argument
NoValue == [str |-> FALSE, day |-> 0, tz |-> <<>>, id |-> 0]

\* a namespace on which _query has not been called
QIdle ==
  [pc |-> "idle", namespace |-> "none", tz |-> <<>>, _tz |-> "", start |-> NoValue,
   end |-> NoValue, start_ts |-> NoValue, end_ts |-> NoValue, dataset |-> "none",
   out |-> NotParsed]

\* an HttpClient on which no query has been started
HttpIdle ==
  [pc |-> "idle", method |-> "none", start |-> NoTime, end |-> NoTime,
   chunks |-> <<>>, i |-> 0, attempt |-> 0, xml_parts |-> <<>>,
   gets |-> <<>>, sleeps |-> <<>>, result |-> NoResult]

\* the module globals of _mappings once the module is loaded
Loaded ==
  [name \in RegistryNames \cup {"AREAS", "AREA_CODES", "COUNTRY_NAMES", "EIC_TO_ISO", "_NAME_TO_ISO",
                                "PSR_CODES", "_PSR_NAME_TO_CODE"} |->
     CASE name = "AREAS" -> AREAS
       [] name = "AREA_CODES" -> AREA_CODES
       [] name = "COUNTRY_NAMES" -> COUNTRY_NAMES
       [] name = "EIC_TO_ISO" -> EIC_TO_ISO
       [] name = "_NAME_TO_ISO" -> _NAME_TO_ISO
       [] name = "PSR_CODES" -> PSR_CODES
       [] name = "_PSR_NAME_TO_CODE" -> _PSR_NAME_TO_CODE
       [] OTHER -> Registry(name)]

MaxThreads == 2

NoThread == [pc |-> "idle", call |-> Call("none", "none", <<>>, "none", 0), rule |-> 0, ret |-> Pending]

NoThreads == [t \in 1..MaxThreads |-> NoThread]

InitResolver ==
  /\ call \in ResolveCalls \cup AreaCalls \cup JunkCalls \cup NameCalls \cup LowerCodeCalls
  /\ ret = Pending
  /\ doc = NoDoc
  /\ parsed = NotParsed
  /\ http = HttpIdle
  /\ ns = NsIdle
  /\ q = QIdle
  /\ registries = Loaded
  /\ threads = NoThreads

\* the resolver named by the call runs to completion
Resolve ==
  /\ ret = Pending
  /\ ret' = Apply(call)
  /\ UNCHANGED <<call, doc, parsed, http, ns, q, registries, threads>>

\* lookup_area is applied to the EIC code a previous lookup_area returned
ResolveAgain ==
  /\ call.fn = "lookup_area"
  /\ call.origin.form # "result"
  /\ ret.kind = "ok"
  /\ call' = Call("lookup_area", "AREAS", ret.value, "result", call.origin.idx)
  /\ ret' = Pending
  /\ UNCHANGED <<doc, parsed, http, ns, q, registries, threads>>

NextResolver == Resolve \/ ResolveAgain

SpecResolver == InitResolver /\ [][NextResolver]_vars

\* ------------------------------------------------------------------------
\* Resolver properties
\* ------------------------------------------------------------------------

Done == ret # Pending

\* C1: resolver round-trip. For every entry e of every code registry,
\* _resolve returns e.code when given e.code, e.slug or the lower-cased
\* e.name; no identifier of one entry is captured by another entry.
C1_RoundTrip ==
  (Done /\ call.fn = "_resolve" /\ call.origin.form \in {"code", "slug", "name"})
    => ret = Return(Registry(call.registry)[call.origin.idx].code)

\* a display name that differs from the slug ("wind onshore") has been resolved
C1_Witness ==
  /\ Done /\ call.fn = "_resolve" /\ call.origin.form = "name"
  /\ call.identifier = <<"w","i","n","d"," ","o","n","s","h","o","r","e">>
  /\ ret.value = <<"B","1","9">>

\* C2: area identifier equivalence. Every spelling of an area's short key
\* (any letter case, underscore or space, surrounding blanks), its EIC code
\* and its display name in any letter case resolve to the area's EIC code,
\* and lookup_area applied to its own result returns that result.
C2_AreaEquivalence ==
  (Done /\ call.fn = "lookup_area" /\ call.origin.form \in {"key", "eic", "name", "result"})
    => ret = Return(AREAS[call.origin.idx].eic)

\* "de lu" has been resolved to the EIC code of DE_LU
C2_Witness ==
  /\ Done /\ call.fn = "lookup_area"
  /\ call.identifier = <<"d","e"," ","l","u">>
  /\ ret.value = <<"1","0","Y","1","0","0","1","A","1","0","0","1","A","8","2","H">>

\* lookup_area has been re-applied to its own result
C2_WitnessIdempotent ==
  Done /\ call.origin.form = "result" /\ ret.value = call.identifier


\* ------------------------------------------------------------------------
\* XML documents (entsoe/_xml.py)
\*
\* An element that _find may return is a record with a `present` flag; a
\* leaf element carries `text`, which ElementTree gives as None for an
\* element without content.  Optional values are sequences of length 0 or 1.
\* Instants are minutes since 2024-06-01T00:00Z: `wall` is the local reading
\* and `off` the UTC offset, so the instant is wall - off.
\* ------------------------------------------------------------------------

None == <<>>

Some(v) == <<v>>

Absent == [present |-> FALSE, text |-> None]

Empty == [present |-> TRUE, text |-> None]

Text(t) == [present |-> TRUE, text |-> Some(t)]

_find_text(child) == IF child.present THEN child.text ELSE None

DigitChars == <<"0","1","2","3","4","5","6","7","8","9">>

RECURSIVE int(_)
int(s) ==
  IF s = <<>> THEN 0
  ELSE 10 * int(SubSeq(s, 1, Len(s) - 1)) + (IndexIn(s[Len(s)], DigitChars) - 1)

float(s) == int(s)

MinutesPerHour == 60

MinutesPerDay == 1440

DaysPerYear == 365

\* re.match(r"PT?(\d+)([MHDY])", resolution): anchored at the start only
_parse_resolution(resolution) ==
  LET n == Len(resolution)
      i0 == IF n >= 2 /\ resolution[2] = "T" THEN 3 ELSE 2
      run == {k \in i0..n : \A j \in i0..k : resolution[j] \in Range(DigitChars)}
      e == IF run = {} THEN i0 - 1 ELSE CHOOSE k \in run : \A j \in run : j <= k
      match == /\ n >= 1 /\ resolution[1] = "P"
               /\ run # {}
               /\ e + 1 <= n /\ resolution[e + 1] \in {"M", "H", "D", "Y"}
      value == int(SubSeq(resolution, i0, e))
      unit == resolution[e + 1]
  IN  IF ~match THEN [ok |-> FALSE, minutes |-> 0]
      ELSE [ok |-> TRUE,
            minutes |-> CASE unit = "M" -> value
                          [] unit = "H" -> MinutesPerHour * value
                          [] unit = "D" -> MinutesPerDay * value
                          [] unit = "Y" -> MinutesPerDay * DaysPerYear * value]

\* the probe order with price.amount tried before quantity
_extract_point_value_priceFirst(point) ==
  IF _find_text(point.price_amount) # None
  THEN Some(float(_find_text(point.price_amount)[1]))
  ELSE IF _find_text(point.quantity) # None THEN Some(float(_find_text(point.quantity)[1]))
  ELSE IF _find_text(point.imbalance_Price_amount) # None
       THEN Some(float(_find_text(point.imbalance_Price_amount)[1]))
  ELSE None

_extract_point_value(point) ==
  IF _find_text(point.quantity) # None THEN Some(float(_find_text(point.quantity)[1]))
  ELSE IF _find_text(point.price_amount) # None
       THEN Some(float(_find_text(point.price_amount)[1]))
  ELSE IF _find_text(point.imbalance_Price_amount) # None
       THEN Some(float(_find_text(point.imbalance_Price_amount)[1]))
  ELSE None

\* the ts_meta dict with every field read only under a MktPSRType element
TsMeta_underMktPSRType(ts) ==
  LET mkt == ts.MktPSRType
      psr == mkt.PowerSystemResources
  IN  [psr_type  |-> IF mkt.present THEN _find_text(mkt.psrType) ELSE None,
       unit_eic  |-> IF mkt.present /\ psr.present THEN _find_text(psr.mRID) ELSE None,
       unit_name |-> IF mkt.present /\ psr.present THEN _find_text(psr.name) ELSE None,
       in_domain |-> IF mkt.present THEN _find_text(ts.in_Domain) ELSE None,
       out_domain |-> IF mkt.present THEN _find_text(ts.out_Domain) ELSE None,
       currency |-> IF mkt.present THEN _find_text(ts.currency_Unit) ELSE None,
       price_unit |-> IF mkt.present THEN _find_text(ts.price_Measure_Unit) ELSE None,
       quantity_unit |-> IF mkt.present THEN _find_text(ts.quantity_Measure_Unit) ELSE None]

\* the ts_meta dict; a key that is not set is None (NaN in the DataFrame)
TsMeta(ts) ==
  LET mkt == ts.MktPSRType
      psr == mkt.PowerSystemResources
  IN  [psr_type  |-> IF mkt.present THEN _find_text(mkt.psrType) ELSE None,
       unit_eic  |-> IF mkt.present /\ psr.present THEN _find_text(psr.mRID) ELSE None,
       unit_name |-> IF mkt.present /\ psr.present THEN _find_text(psr.name) ELSE None,
       in_domain |-> _find_text(ts.in_Domain),
       out_domain |-> _find_text(ts.out_Domain),
       currency |-> _find_text(ts.currency_Unit),
       price_unit |-> _find_text(ts.price_Measure_Unit),
       quantity_unit |-> _find_text(ts.quantity_Measure_Unit)]

\* a Period whose header passes the three `continue` checks
PeriodUsable(period) ==
  /\ period.timeInterval.present
  /\ _find_text(period.timeInterval.start) # None
  /\ _find_text(period.resolution) # None

\* the arithmetic with the 1-based position taken as an offset
PointTimestamp_fromPosition(period_start, resolution, position) ==
  [wall |-> period_start.wall + resolution * position, off |-> period_start.off]

\* timestamp = period_start + resolution * (position - 1)
PointTimestamp(period_start, resolution, position) ==
  [wall |-> period_start.wall + resolution * (position - 1), off |-> period_start.off]

PeriodRows(ts_meta, period) ==
  IF ~PeriodUsable(period) THEN <<>>
  ELSE LET period_start == _find_text(period.timeInterval.start)[1]
           resolution == _parse_resolution(_find_text(period.resolution)[1]).minutes
           points == SelectSeq(period.points, LAMBDA pt : _find_text(pt.position) # None)
       IN  [k \in 1..Len(points) |->
              [timestamp |-> PointTimestamp(period_start, resolution,
                                            int(_find_text(points[k].position)[1])),
               value |-> _extract_point_value(points[k]),
               meta |-> ts_meta]]

\* _parse_resolution raises ValueError
PeriodRaises(period) ==
  PeriodUsable(period) /\ ~_parse_resolution(_find_text(period.resolution)[1]).ok

RECURSIVE Flatten(_)
Flatten(ss) == IF ss = <<>> THEN <<>> ELSE Head(ss) \o Flatten(Tail(ss))

\* a TimeSeries abandoned at its first unusable Period (break instead of continue)
TimeSeriesRows_break(ts) ==
  LET bad == {j \in 1..Len(ts.periods) : ~PeriodUsable(ts.periods[j])}
      stop == IF bad = {} THEN Len(ts.periods) + 1 ELSE CHOOSE j \in bad : \A m \in bad : j <= m
  IN  Flatten([j \in 1..(stop - 1) |-> PeriodRows(TsMeta(ts), ts.periods[j])])

TimeSeriesRows(ts) == Flatten([j \in 1..Len(ts.periods) |-> PeriodRows(TsMeta(ts), ts.periods[j])])

\* the rows list after the loops, in encounter order
CollectRows(d) == Flatten([i \in 1..Len(d.series) |-> TimeSeriesRows(d.series[i])])

DocRaises(d) ==
  \E i \in 1..Len(d.series) : \E j \in 1..Len(d.series[i].periods) :
     PeriodRaises(d.series[i].periods[j])

\* pd.to_datetime(..., utc=True)
to_datetime_utc(row) ==
  [row EXCEPT !.timestamp = [wall |-> row.timestamp.wall - row.timestamp.off, off |-> 0]]

RemoveAt(s, i) == SubSeq(s, 1, i - 1) \o SubSeq(s, i + 1, Len(s))

\* every distinct arrangement of the elements of s
RECURSIVE Arrangements(_)
Arrangements(s) ==
  IF s = <<>> THEN {<<>>}
  ELSE UNION { {<<e>> \o r : r \in Arrangements(RemoveAt(s, IndexIn(e, s)))} : e \in Range(s) }

RECURSIVE SortedFrom(_, _)
SortedFrom(rows, keys) ==
  IF keys = {} THEN {<<>>}
  ELSE LET t == CHOOSE k \in keys : \A m \in keys : k <= m
           group == SelectSeq(rows, LAMBDA r : r.timestamp.wall - r.timestamp.off = t)
       IN  {a \o b : a \in Arrangements(group), b \in SortedFrom(rows, keys \ {t})}

\* the rows left in encounter order
sort_values_unsorted(rows) == {rows}

\* df.sort_values("timestamp").reset_index(drop=True): the default kind is
\* "quicksort", which pandas documents as not stable, so rows with equal
\* timestamps may come out in any order
sort_values(rows) ==
  SortedFrom(rows, {rows[i].timestamp.wall - rows[i].timestamp.off : i \in 1..Len(rows)})

DefaultNoData == "No data available for the requested parameters."

NoDataError(message) == [kind |-> "NoDataError", rows |-> <<>>, message |-> message]

ValueError == [kind |-> "ValueError", rows |-> <<>>, message |-> ""]

DataFrame(rows) == [kind |-> "ok", rows |-> rows, message |-> ""]

\* parse_timeseries without the final `if not rows` check and without reading Reason
parse_timeseries_unchecked(d) ==
  IF d.series = <<>> THEN {NoDataError(DefaultNoData)}
  ELSE IF DocRaises(d) THEN {ValueError}
  ELSE LET rows == CollectRows(d)
       IN  {DataFrame(s) : s \in sort_values([i \in 1..Len(rows) |-> to_datetime_utc(rows[i])])}

\* the set of outcomes parse_timeseries can have on document d
parse_timeseries(d) ==
  IF d.series = <<>>
  THEN IF d.Reason.present
       THEN LET reason_text == _find_text(d.Reason.text)
            IN  {NoDataError(IF reason_text # None THEN reason_text[1] ELSE "No data available.")}
       ELSE {NoDataError(DefaultNoData)}
  ELSE IF DocRaises(d) THEN {ValueError}
  ELSE LET rows == CollectRows(d)
       IN  IF rows = <<>> THEN {NoDataError(DefaultNoData)}
           ELSE {DataFrame(s) : s \in sort_values([i \in 1..Len(rows) |-> to_datetime_utc(rows[i])])}


\* ------------------------------------------------------------------------
\* Documents explored by SpecParser
\* ------------------------------------------------------------------------

MaxSeries == 3

Point(position, quantity, price, imbalance) ==
  [position |-> position, quantity |-> quantity,
   price_amount |-> price, imbalance_Price_amount |-> imbalance]

Period(timeInterval, resolution, points) ==
  [timeInterval |-> timeInterval, resolution |-> resolution, points |-> points]

Interval(start) == [present |-> TRUE, start |-> start]

NoInterval == [present |-> FALSE, start |-> Absent]

PT60M == <<"P","T","6","0","M">>

PT15M == <<"P","T","1","5","M">>

PT1S == <<"P","T","1","S">>

\* 2024-06-01T00:00Z
Midnight == [wall |-> 0, off |-> 0]

\* 2024-06-01T02:00+02:00, the same instant read in a +02:00 zone
MidnightPlus2 == [wall |-> 120, off |-> 120]

\* positions 1 and 3; the second Point carries a quantity and a price
PeriodHourly ==
  Period(Interval(Text(Midnight)), Text(PT60M),
         << Point(Text(<<"1">>), Text(<<"1","0">>), Absent, Absent),
            Point(Text(<<"3">>), Text(<<"2","0">>), Text(<<"9">>), Absent) >>)

\* positions out of order; one Point without any value, one with a price
\* and an imbalance price
PeriodPrices ==
  Period(Interval(Text(MidnightPlus2)), Text(PT60M),
         << Point(Text(<<"3">>), Absent, Absent, Absent),
            Point(Text(<<"2">>), Absent, Text(<<"3","0">>), Text(<<"4","0">>)) >>)

\* a Point without position, one with an empty position element, and one
\* whose quantity element is empty and which carries an imbalance price
PeriodQuarter ==
  Period(Interval(Text(Midnight)), Text(PT15M),
         << Point(Absent, Text(<<"5">>), Absent, Absent),
            Point(Empty, Text(<<"6">>), Absent, Absent),
            Point(Text(<<"2">>), Empty, Absent, Text(<<"4","0">>)) >>)

PeriodNoInterval ==
  Period(NoInterval, Text(PT60M), << Point(Text(<<"1">>), Text(<<"7">>), Absent, Absent) >>)

PeriodNoStart ==
  Period(Interval(Absent), Text(PT60M), << Point(Text(<<"1">>), Text(<<"7">>), Absent, Absent) >>)

PeriodNoResolution ==
  Period(Interval(Text(Midnight)), Absent, << Point(Text(<<"1">>), Text(<<"7">>), Absent, Absent) >>)

PeriodBadResolution ==
  Period(Interval(Text(Midnight)), Text(PT1S), << Point(Text(<<"1">>), Text(<<"7">>), Absent, Absent) >>)

NoMktPSRType ==
  [present |-> FALSE, psrType |-> Absent,
   PowerSystemResources |-> [present |-> FALSE, mRID |-> Absent, name |-> Absent]]

MktPSRType(psrType) ==
  [present |-> TRUE, psrType |-> psrType,
   PowerSystemResources |-> [present |-> FALSE, mRID |-> Absent, name |-> Absent]]

MktPSRTypeOfUnit(psrType, mRID, name) ==
  [present |-> TRUE, psrType |-> psrType,
   PowerSystemResources |-> [present |-> TRUE, mRID |-> mRID, name |-> name]]

TimeSeries(mkt, in_Domain, out_Domain, currency, price_unit, quantity_unit, periods) ==
  [MktPSRType |-> mkt, in_Domain |-> in_Domain, out_Domain |-> out_Domain,
   currency_Unit |-> currency, price_Measure_Unit |-> price_unit,
   quantity_Measure_Unit |-> quantity_unit, periods |-> periods]

SeriesSolar ==
  TimeSeries(MktPSRType(Text("B16")), Absent, Absent, Absent, Absent, Text("MAW"),
             << PeriodHourly >>)

SeriesPrices ==
  TimeSeries(NoMktPSRType, Absent, Absent, Text("EUR"), Text("MWH"), Absent,
             << PeriodPrices >>)

SeriesWindUnit ==
  TimeSeries(MktPSRTypeOfUnit(Text("B19"), Text("48W-UNIT"), Empty), Absent, Absent,
             Absent, Absent, Text("MAW"), << PeriodHourly, PeriodQuarter >>)

SeriesGaps ==
  TimeSeries(NoMktPSRType, Text("10YFR-RTE------C"), Text("10YES-REE------0"),
             Absent, Absent, Empty, << PeriodNoStart, PeriodQuarter, PeriodNoResolution >>)

SeriesSkipped ==
  TimeSeries(NoMktPSRType, Absent, Absent, Absent, Absent, Absent,
             << PeriodNoInterval, PeriodNoResolution >>)

SeriesNoPeriod ==
  TimeSeries(MktPSRType(Text("B16")), Absent, Absent, Absent, Absent, Absent, << >>)

SeriesBadResolution ==
  TimeSeries(NoMktPSRType, Absent, Absent, Absent, Absent, Absent,
             << PeriodBadResolution >>)

SeriesMenu ==
  {SeriesSolar, SeriesPrices, SeriesWindUnit, SeriesGaps, SeriesSkipped, SeriesNoPeriod,
   SeriesBadResolution}

NoReason == [present |-> FALSE, text |-> Absent]

Reason(text) == [present |-> TRUE, text |-> text]

ReasonMenu == {NoReason, Reason(Text("No matching data")), Reason(Empty), Reason(Absent)}

Documents ==
  { [Reason |-> r, series |-> ss] :
      r \in ReasonMenu, ss \in UNION {[1..n -> SeriesMenu] : n \in 0..MaxSeries} }

NoCall == Call("none", "none", <<>>, "none", 0)

InitParser ==
  /\ doc \in Documents
  /\ parsed = NotParsed
  /\ call = NoCall
  /\ ret = Pending
  /\ http = HttpIdle
  /\ ns = NsIdle
  /\ q = QIdle
  /\ registries = Loaded
  /\ threads = NoThreads

\* parse_timeseries(doc) runs to completion, the final sort included
Parse ==
  /\ parsed = NotParsed
  /\ parsed' \in parse_timeseries(doc)
  /\ UNCHANGED <<call, ret, doc, http, ns, q, registries, threads>>

NextParser == Parse

SpecParser == InitParser /\ [][NextParser]_vars

\* ------------------------------------------------------------------------
\* Resolution strings explored by SpecResolution
\* ------------------------------------------------------------------------

MaxDigits == 2

\* digit strings of up to MaxDigits digits, the empty one included
DigitStrings == UNION {[1..k -> {"0", "1", "5", "6"}] : k \in 0..MaxDigits}

ResolutionHeads == {<<"P">>, <<"P","T">>, <<"T">>, <<>>, <<"P","T","T">>, <<"p","t">>}

ResolutionUnits == {<<"M">>, <<"H">>, <<"D">>, <<"Y">>, <<"S">>, <<"W">>, <<"m">>, <<>>}

ResolutionTails == {<<>>, <<"X">>, <<"3","0","M">>}

ResolutionCalls ==
  {Call("_parse_resolution", "none", h \o n \o u \o t, "resolution", 0) :
     h \in ResolutionHeads, n \in DigitStrings, u \in ResolutionUnits, t \in ResolutionTails}

InitResolution ==
  /\ call \in ResolutionCalls
  /\ ret = Pending
  /\ doc = NoDoc
  /\ parsed = NotParsed
  /\ http = HttpIdle
  /\ ns = NsIdle
  /\ q = QIdle
  /\ registries = Loaded
  /\ threads = NoThreads

\* _parse_resolution(resolution): the timedelta in minutes, or ValueError
ParseResolution ==
  /\ call.fn = "_parse_resolution"
  /\ ret = Pending
  /\ ret' = IF _parse_resolution(call.identifier).ok
            THEN Return(_parse_resolution(call.identifier).minutes)
            ELSE Raise("ValueError", "Cannot parse resolution", <<>>)
  /\ UNCHANGED <<call, doc, parsed, http, ns, q, registries, threads>>

NextResolution == ParseResolution

SpecResolution == InitResolution /\ [][NextResolution]_vars

\* ------------------------------------------------------------------------
\* Parser properties
\* ------------------------------------------------------------------------

HasText(leaf) == leaf.present /\ leaf.text # None

PointAt(d, c) == d.series[c[1]].periods[c[2]].points[c[3]]

PeriodAt(d, c) == d.series[c[1]].periods[c[2]]

\* the Points that have a position and lie in a Period that has a start
\* instant and a resolution, as <<series, period, point>> indexes
ValidPoints(d) ==
  UNION { UNION { { <<i, j, k>> : k \in { k \in 1..Len(d.series[i].periods[j].points) :
                       /\ d.series[i].periods[j].timeInterval.present
                       /\ HasText(d.series[i].periods[j].timeInterval.start)
                       /\ HasText(d.series[i].periods[j].resolution)
                       /\ HasText(d.series[i].periods[j].points[k].position) } }
                  : j \in 1..Len(d.series[i].periods) }
          : i \in 1..Len(d.series) }

\* period start + resolution * (position - 1), as a UTC instant
ExpectedInstant(d, c) ==
  LET start == PeriodAt(d, c).timeInterval.start.text[1]
      step == _parse_resolution(PeriodAt(d, c).resolution.text[1]).minutes
  IN  (start.wall - start.off) + step * (int(PointAt(d, c).position.text[1]) - 1)

\* quantity, else price.amount, else imbalance_Price.amount, else null; a
\* field counts as present when its element carries text
ExpectedValue(pt) ==
  CASE HasText(pt.quantity) -> Some(int(pt.quantity.text[1]))
    [] ~HasText(pt.quantity) /\ HasText(pt.price_amount) -> Some(int(pt.price_amount.text[1]))
    [] ~HasText(pt.quantity) /\ ~HasText(pt.price_amount) /\ HasText(pt.imbalance_Price_amount) ->
         Some(int(pt.imbalance_Price_amount.text[1]))
    [] OTHER -> None

ExpectedRow(d, c) ==
  [timestamp |-> [wall |-> ExpectedInstant(d, c), off |-> 0],
   value |-> ExpectedValue(PointAt(d, c)),
   meta |-> TsMeta(d.series[c[1]])]

Instant(row) == row.timestamp.wall - row.timestamp.off


\* C4: parser position arithmetic. Every returned row has the timestamp
\* period_start + resolution * (position - 1) of its Point, expressed in UTC;
\* position 1 maps to the period start.
C4_PositionArithmetic ==
  parsed.kind = "ok" =>
    /\ \A n \in 1..Len(parsed.rows) : parsed.rows[n].timestamp.off = 0
    /\ \A t \in {parsed.rows[n].timestamp.wall : n \in 1..Len(parsed.rows)}
                \cup {ExpectedInstant(doc, c) : c \in ValidPoints(doc)} :
          Cardinality({n \in 1..Len(parsed.rows) : parsed.rows[n].timestamp.wall = t})
            = Cardinality({c \in ValidPoints(doc) : ExpectedInstant(doc, c) = t})

\* start 2024-06-01T00:00Z, PT60M: position 1 gives 00:00Z and position 3 gives 02:00Z
C4_Witness ==
  /\ parsed.kind = "ok"
  /\ doc.series = << SeriesSolar >>
  /\ parsed.rows[1].timestamp = [wall |-> 0, off |-> 0]
  /\ parsed.rows[2].timestamp = [wall |-> 2 * MinutesPerHour, off |-> 0]

\* C5: parser value-field fallback. The value of a Point's row is its
\* quantity if present, otherwise its price.amount, otherwise its
\* imbalance_Price.amount, otherwise null; a Point with none of them still
\* gives a row.
C5_ValueFallback ==
  parsed.kind = "ok" =>
    \A tv \in {<<Instant(parsed.rows[n]), parsed.rows[n].value>> : n \in 1..Len(parsed.rows)}
               \cup {<<ExpectedInstant(doc, c), ExpectedValue(PointAt(doc, c))>> : c \in ValidPoints(doc)} :
       Cardinality({n \in 1..Len(parsed.rows) :
                      <<Instant(parsed.rows[n]), parsed.rows[n].value>> = tv})
         = Cardinality({c \in ValidPoints(doc) :
                      <<ExpectedInstant(doc, c), ExpectedValue(PointAt(doc, c))>> = tv})

\* a Point with only a price.amount (and an imbalance price) gave 30, and a
\* Point with no value field gave a row with a null value
C5_Witness ==
  /\ parsed.kind = "ok"
  /\ doc.series = << SeriesPrices >>
  /\ parsed.rows[1].value = Some(30)
  /\ parsed.rows[2].value = None

\* C6: parser row set. The returned table has exactly one row for every
\* Point that has a position and lies in a Period with a start instant and a
\* resolution, none dropped, merged or duplicated; Periods and Points
\* missing those fields are skipped without raising and without affecting
\* the others.
C6_RowSet ==
  /\ parsed.kind = "ok" =>
       /\ Len(parsed.rows) = Cardinality(ValidPoints(doc))
       /\ \A r \in Range(parsed.rows) \cup {ExpectedRow(doc, c) : c \in ValidPoints(doc)} :
             Cardinality({n \in 1..Len(parsed.rows) : parsed.rows[n] = r})
               = Cardinality({c \in ValidPoints(doc) : ExpectedRow(doc, c) = r})
  /\ (parsed # NotParsed /\ ValidPoints(doc) # {} /\ ~DocRaises(doc)) => parsed.kind = "ok"

\* two TimeSeries with one Period of two Points each gave exactly 4 rows
C6_Witness ==
  /\ parsed.kind = "ok"
  /\ doc.series = << SeriesSolar, SeriesPrices >>
  /\ Len(parsed.rows) = 4

\* a TimeSeries with skipped Periods around a usable one still gave its row
C6_WitnessSkip ==
  /\ parsed.kind = "ok"
  /\ doc.series = << SeriesGaps >>
  /\ Len(parsed.rows) = 1

\* C7: parser no-data. Without any TimeSeries the parser raises NoDataError
\* with the Reason's text when the Reason has text and with the default
\* message when there is no Reason; a document with TimeSeries but no rows
\* raises NoDataError too; an empty table is never returned.
C7_NoData ==
  parsed # NotParsed =>
    /\ (doc.series = <<>> /\ doc.Reason.present /\ HasText(doc.Reason.text))
          => parsed = NoDataError(doc.Reason.text.text[1])
    /\ (doc.series = <<>> /\ ~doc.Reason.present) => parsed = NoDataError(DefaultNoData)
    /\ (doc.series # <<>> /\ ValidPoints(doc) = {} /\ ~DocRaises(doc))
          => parsed.kind = "NoDataError"
    /\ parsed.kind = "ok" => parsed.rows # <<>>

\* a document with no TimeSeries and the Reason "No matching data" was rejected
\* with exactly that message
C7_Witness ==
  /\ doc.series = <<>>
  /\ doc.Reason = Reason(Text("No matching data"))
  /\ parsed = NoDataError("No matching data")

\* a document with TimeSeries but no usable Point was rejected
C7_WitnessNoRows ==
  /\ doc.series = << SeriesSkipped, SeriesNoPeriod >>
  /\ parsed.kind = "NoDataError"

\* the text a TimeSeries populates a field with, or nothing
Populated(leaf) == IF HasText(leaf) THEN leaf.text ELSE None

\* the metadata a TimeSeries populates, field by field
ExpectedMeta(ts) ==
  [psr_type  |-> IF ts.MktPSRType.present THEN Populated(ts.MktPSRType.psrType) ELSE None,
   unit_eic  |-> IF ts.MktPSRType.present /\ ts.MktPSRType.PowerSystemResources.present
                 THEN Populated(ts.MktPSRType.PowerSystemResources.mRID) ELSE None,
   unit_name |-> IF ts.MktPSRType.present /\ ts.MktPSRType.PowerSystemResources.present
                 THEN Populated(ts.MktPSRType.PowerSystemResources.name) ELSE None,
   in_domain |-> Populated(ts.in_Domain),
   out_domain |-> Populated(ts.out_Domain),
   currency |-> Populated(ts.currency_Unit),
   price_unit |-> Populated(ts.price_Measure_Unit),
   quantity_unit |-> Populated(ts.quantity_Measure_Unit)]

\* instant, value and metadata of the row a Point should give
ExpectedTagged(d, c) ==
  <<ExpectedInstant(d, c), ExpectedValue(PointAt(d, c)), ExpectedMeta(d.series[c[1]])>>

Tagged(row) == <<Instant(row), row.value, row.meta>>

\* C25: per-TimeSeries metadata. Every returned row carries exactly the
\* metadata of the TimeSeries that contains its Point: each of psr_type,
\* unit_eic, unit_name, in_domain, out_domain, currency, price_unit and
\* quantity_unit is set on the row if and only if that TimeSeries populates
\* it, whatever the other fields are, and no row carries a field of
\* another TimeSeries.
C25_SeriesMetadata ==
  parsed.kind = "ok" =>
    \A x \in {Tagged(parsed.rows[n]) : n \in 1..Len(parsed.rows)}
              \cup {ExpectedTagged(doc, c) : c \in ValidPoints(doc)} :
       Cardinality({n \in 1..Len(parsed.rows) : Tagged(parsed.rows[n]) = x})
         = Cardinality({c \in ValidPoints(doc) : ExpectedTagged(doc, c) = x})

\* a TimeSeries with in/out domains and no MktPSRType next to one with a
\* resource type and a unit: each row has the fields of its own TimeSeries
\* only
C25_Witness ==
  /\ parsed.kind = "ok"
  /\ doc.series = << SeriesGaps, SeriesWindUnit >>
  /\ \E n \in 1..Len(parsed.rows) :
        /\ parsed.rows[n].meta.in_domain = Some("10YFR-RTE------C")
        /\ parsed.rows[n].meta.psr_type = None
        /\ parsed.rows[n].meta.quantity_unit = None
  /\ \E n \in 1..Len(parsed.rows) :
        /\ parsed.rows[n].meta.psr_type = Some("B19")
        /\ parsed.rows[n].meta.unit_eic = Some("48W-UNIT")
        /\ parsed.rows[n].meta.unit_name = None
        /\ parsed.rows[n].meta.in_domain = None
        /\ parsed.rows[n].meta.quantity_unit = Some("MAW")

AllDigits(s) == s # <<>> /\ \A i \in 1..Len(s) : s[i] \in Range(DigitChars)

\* s is <head><n><unit> with n one or more digits and nothing else
HasForm(s, head, unit) ==
  /\ Len(s) > Len(head) + 1
  /\ SubSeq(s, 1, Len(head)) = head
  /\ s[Len(s)] = unit
  /\ AllDigits(SubSeq(s, Len(head) + 1, Len(s) - 1))

\* the number between the head and the unit
Count(s, head) == int(SubSeq(s, Len(head) + 1, Len(s) - 1))

\* C28 as the claim states it: PT<n>M is n minutes, PT<n>H n hours, P<n>D
\* n days and P<n>Y 365 * n days, and every other string fails with a parse
\* error.
C28_AsStated ==
  (call.fn = "_parse_resolution" /\ ret # Pending) =>
     LET s == call.identifier
     IN  CASE HasForm(s, <<"P","T">>, "M") -> ret = Return(Count(s, <<"P","T">>))
           [] HasForm(s, <<"P","T">>, "H") -> ret = Return(60 * Count(s, <<"P","T">>))
           [] HasForm(s, <<"P">>, "D") -> ret = Return(24 * 60 * Count(s, <<"P">>))
           [] HasForm(s, <<"P">>, "Y") -> ret = Return(365 * 24 * 60 * Count(s, <<"P">>))
           [] OTHER -> ret.kind = "ValueError"

\* the stable ascending sort of rows by instant
RECURSIVE StableSorted(_)
StableSorted(rows) ==
  IF rows = <<>> THEN <<>>
  ELSE LET front == StableSorted(SubSeq(rows, 1, Len(rows) - 1))
           r == rows[Len(rows)]
           n == Cardinality({m \in 1..Len(front) : Instant(front[m]) <= Instant(r)})
       IN  SubSeq(front, 1, n) \o <<r>> \o SubSeq(front, n + 1, Len(front))

MAX_REQUEST_RANGE == 365

max_retries == 3

base_delay == 1

MaxYears == 2

MaxZip == 2

InvalidParameterError(message) ==
  [kind |-> "InvalidParameterError", status |-> 0, message |-> message,
   value |-> [list |-> FALSE, items |-> <<>>]]

RateLimitError ==
  [kind |-> "RateLimitError", status |-> 429,
   message |-> "Rate limit exceeded. Retries exhausted.",
   value |-> [list |-> FALSE, items |-> <<>>]]

ENTSOEError(message, status_code) ==
  [kind |-> "ENTSOEError", status |-> status_code, message |-> message,
   value |-> [list |-> FALSE, items |-> <<>>]]

Returned(value) == [kind |-> "ok", status |-> 0, message |-> "", value |-> value]

StartNaive ==
  "start timestamp must be timezone-aware. Example: pd.Timestamp('2024-01-01', tz='Europe/Paris')"

EndNaive ==
  "end timestamp must be timezone-aware. Example: pd.Timestamp('2024-01-07', tz='Europe/Paris')"

\* the start >= end check dropped
_validate_timestamps_noOrder(start, end) ==
  IF ~start.aware THEN InvalidParameterError(StartNaive)
  ELSE IF ~end.aware THEN InvalidParameterError(EndNaive)
  ELSE NoResult

\* NoResult when the timestamps pass
_validate_timestamps(start, end) ==
  IF ~start.aware THEN InvalidParameterError(StartNaive)
  ELSE IF ~end.aware THEN InvalidParameterError(EndNaive)
  ELSE IF start.t >= end.t THEN InvalidParameterError("start must be before end.")
  ELSE NoResult

min(a, b) == IF a <= b THEN a ELSE b

RECURSIVE SplitFrom(_, _)
SplitFrom(current, end) ==
  IF current < end
  THEN LET chunk_end == min(current + MAX_REQUEST_RANGE, end)
       IN  <<[start |-> current, end |-> chunk_end]>> \o SplitFrom(chunk_end, end)
  ELSE <<>>

\* every chunk is a full MAX_REQUEST_RANGE long: min(..., end) dropped
RECURSIVE SplitFrom_noMin(_, _)
SplitFrom_noMin(current, end) ==
  IF current < end
  THEN <<[start |-> current, end |-> current + MAX_REQUEST_RANGE]>>
         \o SplitFrom_noMin(current + MAX_REQUEST_RANGE, end)
  ELSE <<>>

_split_years_noMin(start, end) == SplitFrom_noMin(start.t, end.t)

_split_years(start, end) == SplitFrom(start.t, end.t)

\* the document that is member m of the response to sub-range i (m = 0: not zipped)
Xml(i, m) == [chunk |-> i, member |-> m]

\* str | list[str]: a single document, or a list of documents
_extract_xml(response, i) ==
  IF response.zip
  THEN IF response.members = 1 THEN [list |-> FALSE, items |-> <<Xml(i, 1)>>]
       ELSE [list |-> TRUE, items |-> [m \in 1..response.members |-> Xml(i, m)]]
  ELSE [list |-> FALSE, items |-> <<Xml(i, 0)>>]

Days == {y * MAX_REQUEST_RANGE + d : y \in 0..MaxYears, d \in {0, 1, MAX_REQUEST_RANGE - 1}}

Timestamps == {[t |-> t, aware |-> a] : t \in Days, a \in BOOLEAN}

Responses ==
  {[status |-> st, zip |-> FALSE, members |-> 0] : st \in {200, 429, 401, 500}}
  \cup {[status |-> 200, zip |-> TRUE, members |-> n] : n \in 0..MaxZip}

InitHttp ==
  /\ http = HttpIdle
  /\ ns = NsIdle
  /\ q = QIdle
  /\ registries = Loaded
  /\ threads = NoThreads
  /\ call = NoCall
  /\ ret = Pending
  /\ doc = NoDoc
  /\ parsed = NotParsed

\* HttpClient.query / query_raw up to the first _single_request:
\* _validate_timestamps, then _split_years
Begin(h, method, start, end, invalid, chunks) ==
  IF invalid # NoResult
  THEN [h EXCEPT !.pc = "failed", !.method = method,
                 !.start = start, !.end = end, !.result = invalid]
  ELSE IF chunks = <<>>
  THEN [h EXCEPT !.pc = "done", !.method = method, !.start = start, !.end = end,
                 !.result = Returned([list |-> TRUE, items |-> <<>>])]
  ELSE [h EXCEPT !.pc = "request", !.method = method, !.start = start, !.end = end,
                 !.chunks = chunks, !.i = 1, !.attempt = 0]

Query ==
  /\ http.pc = "idle"
  /\ \E method \in {"query", "query_raw"}, start \in Timestamps, end \in Timestamps :
       http' = Begin(http, method, start, end, _validate_timestamps(start, end),
                     _split_years(start, end))
  /\ UNCHANGED <<call, ret, doc, parsed, ns, q, registries, threads>>

\* what query / query_raw returns once every sub-range has been answered
QueryValue(method, xml_parts) ==
  IF method = "query" /\ Len(xml_parts) = 1
  THEN [list |-> FALSE, items |-> xml_parts]
  ELSE [list |-> TRUE, items |-> xml_parts]

\* the sleep before the GET that follows the 429 answer to GET number attempt
\* grows linearly instead of doubling
delay_linear(attempt) == base_delay * (attempt + 1)

\* the sleep before the GET that follows the 429 answer to GET number attempt
delay(attempt) == base_delay * (2 ^ attempt)

\* every status but 200 is retried while attempts remain
Classify_retryAll(status_code, attempt) ==
  IF status_code # 200
  THEN IF attempt < max_retries THEN "continue" ELSE "RateLimitError"
  ELSE "return"

\* the branch the body of the retry loop takes on a response
Classify(status_code, attempt) ==
  IF status_code = 429
  THEN IF attempt < max_retries THEN "continue" ELSE "RateLimitError"
  ELSE IF status_code = 401 THEN "Unauthorized"
  ELSE IF status_code # 200 THEN "ENTSOEError"
  ELSE "return"

\* the retry loop with one attempt counter for the whole query: it is not set
\* back when the next sub-range begins
Get_sharedBudget ==
  /\ http.pc = "request"
  /\ \E response \in Responses :
       LET sent == Append(http.gets, [start |-> http.chunks[http.i].start,
                                      end |-> http.chunks[http.i].end,
                                      attempt |-> http.attempt,
                                      status |-> response.status])
           branch == Classify(response.status, http.attempt)
       IN  CASE branch = "continue" ->
                  http' = [http EXCEPT !.gets = sent,
                                       !.sleeps = Append(@, delay(http.attempt)),
                                       !.attempt = @ + 1]
             [] branch = "RateLimitError" ->
                  http' = [http EXCEPT !.gets = sent, !.pc = "failed", !.result = RateLimitError]
             [] branch = "Unauthorized" ->
                  http' = [http EXCEPT !.gets = sent, !.pc = "failed",
                             !.result = ENTSOEError("Unauthorized. Check your ENTSOE_API_KEY.", 401)]
             [] branch = "ENTSOEError" ->
                  http' = [http EXCEPT !.gets = sent, !.pc = "failed",
                             !.result = ENTSOEError("API returned HTTP", response.status)]
             [] branch = "return" ->
                  LET result == _extract_xml(response, http.i)
                      parts == IF http.method = "query"
                               THEN IF result.list THEN http.xml_parts \o result.items
                                    ELSE Append(http.xml_parts, result.items[1])
                               ELSE Append(http.xml_parts, result)
                  IN  IF http.i < Len(http.chunks)
                      THEN http' = [http EXCEPT !.gets = sent, !.xml_parts = parts,
                                                !.i = @ + 1]
                      ELSE http' = [http EXCEPT !.gets = sent, !.xml_parts = parts,
                                                !.pc = "done",
                                                !.result = Returned(QueryValue(http.method, parts))]
  /\ UNCHANGED <<call, ret, doc, parsed, ns, q, registries, threads>>

\* one iteration of the retry loop of _single_request for sub-range http.i:
\* the GET, and what follows from the response
Get ==
  /\ http.pc = "request"
  /\ \E response \in Responses :
       LET sent == Append(http.gets, [start |-> http.chunks[http.i].start,
                                      end |-> http.chunks[http.i].end,
                                      attempt |-> http.attempt,
                                      status |-> response.status])
           branch == Classify(response.status, http.attempt)
       IN  CASE branch = "continue" ->
                  http' = [http EXCEPT !.gets = sent,
                                       !.sleeps = Append(@, delay(http.attempt)),
                                       !.attempt = @ + 1]
             [] branch = "RateLimitError" ->
                  http' = [http EXCEPT !.gets = sent, !.pc = "failed", !.result = RateLimitError]
             [] branch = "Unauthorized" ->
                  http' = [http EXCEPT !.gets = sent, !.pc = "failed",
                             !.result = ENTSOEError("Unauthorized. Check your ENTSOE_API_KEY.", 401)]
             [] branch = "ENTSOEError" ->
                  http' = [http EXCEPT !.gets = sent, !.pc = "failed",
                             !.result = ENTSOEError("API returned HTTP", response.status)]
             [] branch = "return" ->
                  LET result == _extract_xml(response, http.i)
                      parts == IF http.method = "query"
                               THEN IF result.list THEN http.xml_parts \o result.items
                                    ELSE Append(http.xml_parts, result.items[1])
                               ELSE Append(http.xml_parts, result)
                  IN  IF http.i < Len(http.chunks)
                      THEN http' = [http EXCEPT !.gets = sent, !.xml_parts = parts,
                                                !.i = @ + 1, !.attempt = 0]
                      ELSE http' = [http EXCEPT !.gets = sent, !.xml_parts = parts,
                                                !.pc = "done",
                                                !.result = Returned(QueryValue(http.method, parts))]
  /\ UNCHANGED <<call, ret, doc, parsed, ns, q, registries, threads>>

NextHttp == Query \/ Get

SpecHttp == InitHttp /\ [][NextHttp]_vars

\* query runs to completion once called: each GET is answered and the loop
\* goes on without waiting for anything else
SpecHttpLive == SpecHttp /\ WF_vars(NextHttp)

\* ------------------------------------------------------------------------
\* Namespace layer (entsoe/namespaces): fan-out over identifier lists
\*
\* ns.plan is the sequence of loop iterations the method goes through when
\* nothing fails; ns.requests logs the parameters of every self._query call
\* in the order made and ns.outcomes how each ended; ns.frames are the
\* DataFrames collected for the result.
\* What one self._query call gives is the server's business: it fails with
\* one of SubErrors or returns the rows RowsFor its parameters.
\* ------------------------------------------------------------------------

MaxList == 2

MaxRows == 2

CountryMenu == {<<"F","R">>, <<"E","S">>, <<"X","X">>}

PsrMenu == {<<"s","o","l","a","r">>, <<"w","i","n","d","_","o","n","s","h","o","r","e">>,
            <<"n","o","n","e">>}

SeqsUpTo(S, n) == UNION {[1..k -> S] : k \in 0..n}

CountryArgs == {One(c) : c \in CountryMenu} \cup {Many(l) : l \in SeqsUpTo(CountryMenu, MaxList)}

PsrArgs == {NoArg} \cup {One(p) : p \in PsrMenu} \cup {Many(l) : l \in SeqsUpTo(PsrMenu, MaxList)}

SubErrors == {"NoDataError", "ENTSOEError", "RateLimitError"}

\* one loop iteration: the identifiers it is for, how its rows are labelled,
\* and whether its DataFrame goes into the result
Iteration(c, to, psr, label, keep) ==
  [c |-> c, to |-> to, psr |-> psr, label |-> label, keep |-> keep]

_query_multi_plan(values, psr, keep) ==
  IF ~values.list
  THEN <<Iteration(values.items[1], <<>>, psr, "none", keep)>>
  ELSE [k \in 1..Len(values.items) |-> Iteration(values.items[k], <<>>, psr, "country", keep)]

_gen_query_plan(country, psr_type) ==
  LET single == IF psr_type.given /\ ~psr_type.list /\ psr_type.items[1] # <<>>
                THEN Some(psr_type.items[1]) ELSE None
      countries == country.items
      n == Len(psr_type.items)
  IN  _query_multi_plan(country, single, ~psr_type.list)
      \o (IF psr_type.list
          THEN [k \in 1..(Len(countries) * n) |->
                  Iteration(countries[((k - 1) \div n) + 1], <<>>,
                            Some(psr_type.items[((k - 1) % n) + 1]),
                            IF country.list THEN "country" ELSE "none", TRUE)]
          ELSE <<>>)

\* the border column only when both sides are lists
_transmission_query_plan_bothLists(country_from, country_to) ==
  LET froms == country_from.items
      tos == country_to.items
      n == Len(tos)
  IN  [k \in 1..(Len(froms) * n) |->
         Iteration(froms[((k - 1) \div n) + 1], tos[((k - 1) % n) + 1], None,
                   IF country_from.list /\ country_to.list THEN "border" ELSE "none", TRUE)]

_transmission_query_plan(country_from, country_to) ==
  IF ~country_from.list /\ ~country_to.list
  THEN <<Iteration(country_from.items[1], country_to.items[1], None, "none", TRUE)>>
  ELSE LET froms == country_from.items
           tos == country_to.items
           n == Len(tos)
       IN  [k \in 1..(Len(froms) * n) |->
              Iteration(froms[((k - 1) \div n) + 1], tos[((k - 1) % n) + 1], None, "border", TRUE)]

Plan(method, country, other) ==
  CASE method = "_query_multi" -> _query_multi_plan(country, None, TRUE)
    [] method = "_gen_query" -> _gen_query_plan(country, other)
    [] method = "_transmission_query" -> _transmission_query_plan(country, other)
    [] method = "imbalance_prices" -> <<Iteration(country.items[1], <<>>, None, "none", TRUE)>>

Request(in_Domain, out_Domain, psrType, controlArea_Domain) ==
  [in_Domain |-> in_Domain, out_Domain |-> out_Domain, psrType |-> psrType,
   controlArea_Domain |-> controlArea_Domain]

\* the params dict of a border iteration, from the outcomes of its two area
\* lookups
BorderParams(in, out) ==
  IF in.kind # "ok" THEN in
  ELSE IF out.kind # "ok" THEN out
  ELSE Return(Request(Some(in.value), Some(out.value), None, None))

\* the params dict of a country iteration, from the outcomes of its lookups
CountryParams(method, area, psr, withPsr) ==
  IF area.kind # "ok" THEN area
  ELSE IF psr.kind # "ok" THEN psr
  ELSE IF method = "imbalance_prices"
       THEN Return(Request(None, None, None, Some(area.value)))
       ELSE Return(Request(Some(area.value), None,
                           IF withPsr THEN Some(psr.value) ELSE None, None))

\* the params dict of an iteration, or the error of the first lookup that fails
Params(method, it) ==
  IF method = "_transmission_query"
  THEN BorderParams(lookup_area(it.to), lookup_area(it.c))
  ELSE CountryParams(method, lookup_area(it.c),
                     IF it.psr = None THEN Return(<<>>) ELSE lookup_psr(it.psr[1]),
                     it.psr # None)

Element(opt) == IF opt = None THEN Absent ELSE Text(opt[1])

\* the TimeSeries the server answers a request with: it echoes the requested
\* domains and resource type
SeriesFor(request) ==
  TimeSeries(IF request.psrType = None THEN NoMktPSRType ELSE MktPSRType(Text(request.psrType[1])),
             Element(request.in_Domain), Element(request.out_Domain),
             Absent, Absent, Absent, <<>>)

FranceEic == DictGet(AREA_CODES, <<"F","R">>)

\* how many rows the server has for a request
RowCount(request) ==
  IF request.in_Domain = Some(FranceEic) \/ request.controlArea_Domain = Some(FranceEic)
  THEN 1 ELSE MaxRows

\* the DataFrame self._query returns for a request that succeeds: row n of
\* the answer, with the metadata columns parse_timeseries takes from the
\* TimeSeries; request is the request the row came from
RowsFor(request) ==
  [n \in 1..RowCount(request) |->
     [n |-> n, meta |-> TsMeta(SeriesFor(request)), request |-> request,
      country |-> None, border |-> None]]

\* " \u2192 ", the arrow written as the one token "->"
Arrow == <<" ", "->", " ">>

\* the label is the identifier as the caller wrote it
Label_raw(it, df) ==
  CASE it.label = "none" -> Return(df)
    [] it.label = "country" ->
         Return([n \in 1..Len(df) |-> [df[n] EXCEPT !.country = Some(it.c)]])
    [] it.label = "border" ->
         Return([n \in 1..Len(df) |-> [df[n] EXCEPT !.border = Some(it.c \o Arrow \o it.to)]])

\* df["country"] = country_name(country), or the error country_name raises
CountryLabel(df, name) ==
  IF name.kind # "ok" THEN name
  ELSE Return([n \in 1..Len(df) |-> [df[n] EXCEPT !.country = Some(name.value)]])

\* df["border"] = f"{country_name(cf)} \u2192 {country_name(ct)}"
BorderLabel(df, from, to) ==
  IF from.kind # "ok" THEN from
  ELSE IF to.kind # "ok" THEN to
  ELSE Return([n \in 1..Len(df) |->
                 [df[n] EXCEPT !.border = Some(from.value \o Arrow \o to.value)]])

\* df[label_col] = label_fn(val), or the error label_fn raises
Label(it, df) ==
  CASE it.label = "none" -> Return(df)
    [] it.label = "country" -> CountryLabel(df, country_name(it.c))
    [] it.label = "border" -> BorderLabel(df, country_name(it.c), country_name(it.to))

Failed(n, exc) == [n EXCEPT !.pc = "failed", !.result = [kind |-> exc, rows |-> <<>>]]

\* pd.concat(frames, ignore_index=True) and return
Finish(n) ==
  IF n.frames = <<>>
  THEN Failed(n, "ValueError")
  ELSE [n EXCEPT !.pc = "done", !.result = [kind |-> "ok", rows |-> Flatten(n.frames)]]

\* after an iteration: the next one, or concatenate and return
Advance(got) ==
  IF got.i < Len(got.plan) THEN [got EXCEPT !.i = @ + 1] ELSE Finish(got)

\* a failing sub-query is skipped and the loop goes on
Collect_skipFailed(sent, it, outcome, labelled) ==
  IF outcome # "ok" \/ labelled.kind # "ok" THEN Advance(sent)
  ELSE Advance(IF it.keep THEN [sent EXCEPT !.frames = Append(@, labelled.value)] ELSE sent)

\* the rest of an iteration whose request was sent: the sub-query's error or
\* the labelling error propagates, otherwise the labelled rows are collected
Collect(sent, it, outcome, labelled) ==
  IF outcome # "ok" THEN Failed(sent, outcome)
  ELSE IF labelled.kind # "ok" THEN Failed(sent, labelled.kind)
  ELSE Advance(IF it.keep THEN [sent EXCEPT !.frames = Append(@, labelled.value)] ELSE sent)

\* an iteration whose params are built: self._query and what follows it
Send(n, it, outcome, params) ==
  IF params.kind # "ok" THEN Failed(n, params.kind)
  ELSE Collect([n EXCEPT !.requests = Append(@, params.value),
                         !.outcomes = Append(@, outcome)],
               it, outcome, Label(it, RowsFor(params.value)))

\* one loop iteration: build the params, self._query, label the rows, collect;
\* after the last one, concatenate and return
Iterate(n, outcome) == Send(n, n.plan[n.i], outcome, Params(n.method, n.plan[n.i]))

NsCalls ==
  {[method |-> "_query_multi", country |-> c, other |-> NoArg] : c \in CountryArgs}
  \cup {[method |-> "imbalance_prices", country |-> c, other |-> NoArg] : c \in CountryArgs}
  \cup {[method |-> "_gen_query", country |-> c, other |-> p] : c \in CountryArgs, p \in PsrArgs}
  \cup {[method |-> "_transmission_query", country |-> c, other |-> t]
          : c \in CountryArgs, t \in CountryArgs}

InitNs ==
  /\ ns = NsIdle
  /\ q = QIdle
  /\ registries = Loaded
  /\ threads = NoThreads
  /\ http = HttpIdle
  /\ call = NoCall
  /\ ret = Pending
  /\ doc = NoDoc
  /\ parsed = NotParsed

\* a namespace method is called: everything it does before its first loop
\* iteration
NsCall ==
  /\ ns.pc = "idle"
  /\ \E c \in NsCalls :
       LET entered == [ns EXCEPT !.method = c.method, !.country = c.country, !.other = c.other]
       IN  IF c.method = "imbalance_prices" /\ c.country.list
           THEN ns' = Failed(entered, "AttributeError")
           ELSE LET plan == Plan(c.method, c.country, c.other)
                IN  IF plan = <<>>
                    THEN ns' = Finish(entered)
                    ELSE ns' = [entered EXCEPT !.pc = "running", !.plan = plan, !.i = 1]
  /\ UNCHANGED <<call, ret, doc, parsed, http, q, registries, threads>>

SubQuery ==
  /\ ns.pc = "running"
  /\ \E outcome \in {"ok"} \cup SubErrors : ns' = Iterate(ns, outcome)
  /\ UNCHANGED <<call, ret, doc, parsed, http, q, registries, threads>>

NextNs == NsCall \/ SubQuery

SpecNs == InitNs /\ [][NextNs]_vars

\* ------------------------------------------------------------------------
\* BaseNamespace._query (entsoe/namespaces/_base.py) on a Client (client.py):
\* timestamp coercion, HttpClient.query, and the parsing of what it returns.
\* The GETs of the query are the steps of Get above; the documents the
\* server answers with are fixed per call by a dataset.
\* ------------------------------------------------------------------------

DEFAULT_TZ == "Europe/Brussels"

Namespaces == {"load", "prices", "generation", "transmission", "balancing"}

\* Client.__init__: the five namespaces are built with the same tz
Client(tz) == [n \in Namespaces |-> [_tz |-> IF tz = None THEN DEFAULT_TZ ELSE tz[1]]]

\* a date string of the caller
Str(day) == [str |-> TRUE, day |-> day, tz |-> None, id |-> 0]

\* a pd.Timestamp object: tz is None for a naive one; id tells the caller's
\* objects (1, 2) from one made during the call (0)
Timestamp(day, tz, id) == [str |-> FALSE, day |-> day, tz |-> tz, id |-> id]

\* a naive Timestamp is localized to the default zone
_resolve_ts_localize(_tz, value) ==
  IF value.str \/ value.tz = None THEN Timestamp(value.day, Some(_tz), 0) ELSE value

\* str -> pd.Timestamp(value, tz=self._tz); a pd.Timestamp is returned as it is
_resolve_ts(_tz, value) ==
  IF value.str THEN Timestamp(value.day, Some(_tz), 0) ELSE value

\* what the transport reads of a Timestamp: its day and whether it has a zone
\* (the zone offset, under a day, does not change the validation or the
\* number of sub-ranges of the spans explored)
AsTransport(ts) == [t |-> ts.day, aware |-> ts.tz # None]

\* an exception of the transport, as _query lets it through
Propagated(result) == [kind |-> result.kind, rows |-> <<>>, message |-> result.message]

\* a document with one TimeSeries of two hourly Points starting at hour h,
\* both with quantity v
HourlyDocument(h, v) ==
  [Reason |-> NoReason,
   series |-> << TimeSeries(NoMktPSRType, Absent, Absent, Absent, Absent, Absent,
                   << Period(Interval(Text([wall |-> MinutesPerHour * h, off |-> 0])), Text(PT60M),
                        << Point(Text(<<"1">>), Text(<<DigitChars[v + 1]>>), Absent, Absent),
                           Point(Text(<<"2">>), Text(<<DigitChars[v + 1]>>), Absent, Absent) >>) >>) >>]

EmptyDocument == [Reason |-> Reason(Text("No matching data")), series |-> <<>>]

NoRowsDocument == [Reason |-> NoReason, series |-> << SeriesSkipped >>]

Datasets == {"rows", "ties", "lastEmpty", "firstNoRows"}

\* document number k of n under a dataset: later documents hold earlier
\* hours; under "ties" neighbouring documents share an hour
DocumentOf(dataset, k, n) ==
  CASE dataset = "rows" -> HourlyDocument(2 * (n - k), k)
    [] dataset = "ties" -> HourlyDocument(n - k, k)
    [] dataset = "lastEmpty" -> IF k = n THEN EmptyDocument ELSE HourlyDocument(2 * (n - k), k)
    [] dataset = "firstNoRows" -> IF k = 1 THEN NoRowsDocument ELSE HourlyDocument(2 * (n - k), k)

\* the value of HttpClient.query with the text of its documents
Fetched(dataset, value) ==
  [list |-> value.list,
   items |-> [k \in 1..Len(value.items) |-> DocumentOf(dataset, k, Len(value.items))]]

\* [parse_timeseries(xml) for xml in result]: every way the documents can parse
RECURSIVE ParseEach(_)
ParseEach(docs) ==
  IF docs = <<>> THEN {<<>>}
  ELSE {<<h>> \o t : h \in parse_timeseries(Head(docs)), t \in ParseEach(Tail(docs))}

\* the frames of the documents that parsed, concatenated and sorted; the
\* documents without rows are left out
Concat_skipEmpty(dfs) ==
  LET kept == SelectSeq(dfs, LAMBDA df : df.kind = "ok")
  IN  IF kept = <<>> THEN {IF dfs = <<>> THEN ValueError ELSE dfs[1]}
      ELSE {DataFrame(r) : r \in sort_values(Flatten([i \in 1..Len(kept) |-> kept[i].rows]))}

\* the frames concatenated and sorted with one row kept per timestamp
Concat_dropDuplicates(dfs) ==
  IF \E i \in 1..Len(dfs) : dfs[i].kind # "ok"
  THEN {dfs[CHOOSE i \in 1..Len(dfs) : dfs[i].kind # "ok" /\ \A j \in 1..(i - 1) : dfs[j].kind = "ok"]}
  ELSE IF dfs = <<>> THEN {ValueError}
  ELSE {DataFrame(SelectSeq(r, LAMBDA row :
                    row = r[CHOOSE n \in 1..Len(r) :
                              /\ Instant(r[n]) = Instant(row)
                              /\ \A m \in 1..(n - 1) : Instant(r[m]) # Instant(row)])) :
          r \in sort_values(Flatten([i \in 1..Len(dfs) |-> dfs[i].rows]))}

\* the frames concatenated in list order and left unsorted
Concat_unsorted(dfs) ==
  IF \E i \in 1..Len(dfs) : dfs[i].kind # "ok"
  THEN {dfs[CHOOSE i \in 1..Len(dfs) : dfs[i].kind # "ok" /\ \A j \in 1..(i - 1) : dfs[j].kind = "ok"]}
  ELSE IF dfs = <<>> THEN {ValueError}
  ELSE {DataFrame(Flatten([i \in 1..Len(dfs) |-> dfs[i].rows]))}

\* pd.concat(dfs, ignore_index=True).sort_values("timestamp").reset_index(drop=True);
\* the first parse_timeseries that raises ends the list comprehension, and
\* pd.concat([]) raises ValueError
Concat(dfs) ==
  IF \E i \in 1..Len(dfs) : dfs[i].kind # "ok"
  THEN {dfs[CHOOSE i \in 1..Len(dfs) : dfs[i].kind # "ok" /\ \A j \in 1..(i - 1) : dfs[j].kind = "ok"]}
  ELSE IF dfs = <<>> THEN {ValueError}
  ELSE {DataFrame(r) : r \in sort_values(Flatten([i \in 1..Len(dfs) |-> dfs[i].rows]))}

\* the multi-document branch of _query on a list of documents
ParseMany(docs) == UNION {Concat(dfs) : dfs \in ParseEach(docs)}

\* what _query makes of the value of HttpClient.query
Parsed(result) ==
  IF result.list THEN ParseMany(result.items) ELSE parse_timeseries(result.items[1])

ClientZones == {None, Some("UTC"), Some("US/Eastern")}

StartValues == {Str(0), Timestamp(0, Some("Asia/Tokyo"), 1), Timestamp(0, None, 1)}

EndValues ==
  {Str(1), Str(MAX_REQUEST_RANGE + 2), Timestamp(1, Some("Europe/Paris"), 2),
   Timestamp(1, None, 2)}

InitQuery ==
  /\ q = QIdle
  /\ registries = Loaded
  /\ threads = NoThreads
  /\ http = HttpIdle
  /\ ns = NsIdle
  /\ call = NoCall
  /\ ret = Pending
  /\ doc = NoDoc
  /\ parsed = NotParsed

\* _query up to the first GET of HttpClient.query: _resolve_ts on start and
\* end, then _validate_timestamps and _split_years
Entered(namespace, tz, _tz, start, end, dataset, began) ==
  [QIdle EXCEPT !.pc = IF began.pc = "failed" THEN "failed" ELSE "transport",
                !.namespace = namespace, !.tz = tz, !._tz = _tz,
                !.start = start, !.end = end,
                !.start_ts = _resolve_ts(_tz, start), !.end_ts = _resolve_ts(_tz, end),
                !.dataset = dataset,
                !.out = IF began.pc = "failed" THEN Propagated(began.result) ELSE NotParsed]

BeginQuery(start_ts, end_ts) ==
  Begin(http, "query", AsTransport(start_ts), AsTransport(end_ts),
        _validate_timestamps(AsTransport(start_ts), AsTransport(end_ts)),
        _split_years(AsTransport(start_ts), AsTransport(end_ts)))

QueryCall ==
  /\ q.pc = "idle"
  /\ \E namespace \in Namespaces, tz \in ClientZones, start \in StartValues,
        end \in EndValues, dataset \in Datasets :
       /\ http' = BeginQuery(_resolve_ts(Client(tz)[namespace]._tz, start),
                             _resolve_ts(Client(tz)[namespace]._tz, end))
       /\ q' = Entered(namespace, tz, Client(tz)[namespace]._tz, start, end, dataset, http')
  /\ UNCHANGED <<call, ret, doc, parsed, ns, registries, threads>>

\* HttpClient.query has ended: its exception propagates, or its value is parsed
QueryReturn ==
  /\ q.pc = "transport"
  /\ http.pc \in {"done", "failed"}
  /\ IF http.pc = "failed"
     THEN q' = [q EXCEPT !.pc = "failed", !.out = Propagated(http.result)]
     ELSE \E out \in Parsed(Fetched(q.dataset, http.result.value)) :
            q' = [q EXCEPT !.pc = IF out.kind = "ok" THEN "done" ELSE "failed", !.out = out]
  /\ UNCHANGED <<call, ret, doc, parsed, http, ns, registries, threads>>

NextQuery == QueryCall \/ Get \/ QueryReturn

SpecQuery == InitQuery /\ [][NextQuery]_vars

\* ------------------------------------------------------------------------
\* The multi-document branch of _query on a one-document list, next to
\* parse_timeseries on the same document (SpecMerge)
\* ------------------------------------------------------------------------

\* the multi-document branch of _query applied to [doc]
Merge ==
  /\ q.pc = "idle"
  /\ \E out \in ParseMany(<<doc>>) :
       q' = [q EXCEPT !.pc = IF out.kind = "ok" THEN "done" ELSE "failed", !.out = out]
  /\ UNCHANGED <<call, ret, doc, parsed, http, ns, registries, threads>>

NextMerge == Parse \/ Merge

SpecMerge == InitParser /\ [][NextMerge]_vars

\* ------------------------------------------------------------------------
\* Properties of the namespace layer
\* ------------------------------------------------------------------------

\* registry entry of an area key, read off AREAS
AreaEntry(key) ==
  IF \E i \in 1..Len(AREAS) : AREAS[i].key = key
  THEN AREAS[CHOOSE i \in 1..Len(AREAS) : AREAS[i].key = key]
  ELSE [key |-> <<>>, eic |-> <<>>, name |-> <<>>]

\* registry entry of a resource type slug, read off PSR_TYPES
PsrEntry(slug) ==
  IF \E i \in 1..Len(PSR_TYPES) : PSR_TYPES[i].slug = slug
  THEN PSR_TYPES[CHOOSE i \in 1..Len(PSR_TYPES) : PSR_TYPES[i].slug = slug]
  ELSE [code |-> <<>>, name |-> <<>>, slug |-> <<>>]

France == <<"F","r","a","n","c","e">>

Spain == <<"S","p","a","i","n">>

\* the rows of the single query for area key c, each with the label column set
\* to label (None: no label column)
CountryBlock(c, label) ==
  LET single == RowsFor(Request(Some(AreaEntry(c).eic), None, None, None))
  IN  [n \in 1..Len(single) |-> [single[n] EXCEPT !.country = label]]

\* C13: given a list of one or more identifiers, _query_multi issues one
\* sub-query per element in list order and returns the rows of each
\* element's own single query, block after block in list order (so the row
\* count is the sum of the single counts), every row labelled in "country"
\* with the display name of the element that produced it ("France" for
\* "FR", "Spain" for "ES"); given a single string it returns the single
\* query's rows with no label.  A call that fails returns nothing; that is
\* so for the list without elements, for which no sub-query is issued.
C13_FanOutProvenance ==
  (ns.method = "_query_multi") =>
     LET items == ns.country.items
     IN  /\ Len(ns.requests) <= Len(items)
         /\ \A k \in 1..Len(ns.requests) :
               ns.requests[k] = Request(Some(AreaEntry(items[k]).eic), None, None, None)
         /\ ns.pc = "done" =>
               /\ Len(ns.requests) = Len(items)
               /\ ns.country.list =>
                     /\ ns.result.rows =
                          Flatten([k \in 1..Len(items) |->
                                     CountryBlock(items[k], Some(AreaEntry(items[k]).name))])
                     /\ \A r \in 1..Len(ns.result.rows) :
                           LET row == ns.result.rows[r]
                           IN  /\ row.request.in_Domain = Some(FranceEic) <=> row.country = Some(France)
                               /\ row.request.in_Domain = Some(AreaEntry(<<"E","S">>).eic)
                                     <=> row.country = Some(Spain)
               /\ ~ns.country.list => ns.result.rows = CountryBlock(items[1], None)

C13_Witness ==
  /\ ns.method = "_query_multi"
  /\ ns.pc = "done"
  /\ ns.country = Many(<< <<"F","R">>, <<"E","S">> >>)
  /\ Len(ns.result.rows) = 1 + MaxRows
  /\ ns.result.rows[1].country = Some(France)
  /\ ns.result.rows[2].country = Some(Spain)

C13_WitnessOneElement ==
  /\ ns.method = "_query_multi"
  /\ ns.pc = "done"
  /\ ns.country = Many(<< <<"E","S">> >>)
  /\ ns.result.rows[1].country = Some(Spain)

C13_WitnessString ==
  /\ ns.method = "_query_multi"
  /\ ns.pc = "done"
  /\ ns.country = One(<<"E","S">>)
  /\ ns.result.rows[1].country = None

\* pair number k of the product of froms and tos, the from side varying slowest
PairAt(froms, tos, k) ==
  [from |-> froms[((k - 1) \div Len(tos)) + 1], to |-> tos[((k - 1) % Len(tos)) + 1]]

\* the rows of the single query for the border from -> to (area keys), each
\* with the border column set to label
BorderBlock(pair, label) ==
  LET single == RowsFor(Request(Some(AreaEntry(pair.to).eic), Some(AreaEntry(pair.from).eic),
                                None, None))
  IN  [n \in 1..Len(single) |-> [single[n] EXCEPT !.border = label]]

\* C14: _transmission_query issues one sub-query per pair of froms x tos, the
\* from side varying slowest, each with out_Domain the exporting and
\* in_Domain the importing country's area; when at least one side is a list
\* every row of a pair is labelled "<name of from> -> <name of to>" in
\* "border", and when both sides are single strings there is one query and
\* no such column.
C14_BorderLabelling ==
  (ns.method = "_transmission_query") =>
     LET froms == ns.country.items
         tos == ns.other.items
         multi == ns.country.list \/ ns.other.list
         count == Len(froms) * Len(tos)
         label(pair) == IF multi
                        THEN Some(AreaEntry(pair.from).name \o Arrow \o AreaEntry(pair.to).name)
                        ELSE None
     IN  /\ Len(ns.requests) <= count
         /\ ~multi => count = 1
         /\ \A k \in 1..Len(ns.requests) :
               LET pair == PairAt(froms, tos, k)
               IN  ns.requests[k] = Request(Some(AreaEntry(pair.to).eic),
                                            Some(AreaEntry(pair.from).eic), None, None)
         /\ ns.pc = "done" =>
               /\ Len(ns.requests) = count
               /\ ns.result.rows =
                    Flatten([k \in 1..count |->
                               BorderBlock(PairAt(froms, tos, k), label(PairAt(froms, tos, k)))])
               /\ multi <=> (\E r \in 1..Len(ns.result.rows) : ns.result.rows[r].border # None)
               /\ multi <=> (\A r \in 1..Len(ns.result.rows) : ns.result.rows[r].border # None)
               /\ \A r \in 1..Len(ns.result.rows) : ns.result.rows[r].country = None

C14_Witness ==
  /\ ns.method = "_transmission_query"
  /\ ns.pc = "done"
  /\ ns.country = One(<<"F","R">>)
  /\ ns.other = Many(<< <<"E","S">>, <<"F","R">> >>)
  /\ ns.result.rows[1].border = Some(France \o Arrow \o Spain)
  /\ ns.result.rows[1].request.out_Domain = Some(FranceEic)
  /\ Len(ns.requests) = 2

C14_WitnessProduct ==
  /\ ns.method = "_transmission_query"
  /\ ns.pc = "done"
  /\ ns.country = Many(<< <<"F","R">>, <<"E","S">> >>)
  /\ ns.other = Many(<< <<"E","S">>, <<"F","R">> >>)
  /\ Len(ns.requests) = 4

C14_WitnessSingle ==
  /\ ns.method = "_transmission_query"
  /\ ns.pc = "done"
  /\ ns.country = One(<<"F","R">>)
  /\ ns.other = One(<<"E","S">>)
  /\ Len(ns.requests) = 1
  /\ ns.result.rows[1].border = None

\* the rows of the single query for area key c and resource slug p, labelled
GenBlock(c, p, label) ==
  LET single == RowsFor(Request(Some(AreaEntry(c).eic), None, Some(PsrEntry(p).code), None))
  IN  [n \in 1..Len(single) |-> [single[n] EXCEPT !.country = label]]

\* C15 as the claim states it: a generation query with a list P of resource
\* types issues one sub-request per pair of C x P carrying that pair's
\* in_Domain and psrType, no other request, and returns the concatenation
\* of those sub-results.  Stated for C and P with at least one element.
C15_AsStated ==
  (ns.method = "_gen_query" /\ ns.other.list /\ ns.other.items # <<>> /\ ns.country.items # <<>>) =>
     LET C == ns.country.items
         P == ns.other.items
         count == Len(C) * Len(P)
     IN  /\ Len(ns.requests) <= count
         /\ \A k \in 1..Len(ns.requests) :
               /\ ns.requests[k].psrType # None
               /\ LET pair == PairAt(C, P, k)
                  IN  ns.requests[k] = Request(Some(AreaEntry(pair.from).eic), None,
                                               Some(PsrEntry(pair.to).code), None)
         /\ ns.pc = "done" =>
               /\ Len(ns.requests) = count
               /\ ns.result.rows =
                    Flatten([k \in 1..count |->
                               GenBlock(PairAt(C, P, k).from, PairAt(C, P, k).to,
                                        IF ns.country.list
                                        THEN Some(AreaEntry(PairAt(C, P, k).from).name)
                                        ELSE None)])

\* C16: in _query_multi, _gen_query and _transmission_query the sub-requests
\* go out one after another in iteration order; a sub-request that fails
\* (NoData included) is the last one issued, the call raises its error,
\* and a call that failed returns no rows.
C16_AbortOnFirstFailure ==
  (ns.method \in {"_query_multi", "_gen_query", "_transmission_query"}) =>
     LET n == Len(ns.requests)
     IN  /\ Len(ns.outcomes) = n
         /\ n <= Len(ns.plan)
         /\ \A k \in 1..n : ns.requests[k] = Params(ns.method, ns.plan[k]).value
         /\ \A k \in 1..n :
               ns.outcomes[k] # "ok" =>
                 /\ k = n
                 /\ ns.pc = "failed"
                 /\ ns.result = [kind |-> ns.outcomes[k], rows |-> <<>>]
         /\ ns.pc = "running" => n = ns.i - 1
         /\ ns.pc = "failed" =>
               /\ ns.result.kind # "ok"
               /\ ns.result.rows = <<>>
               /\ ns.plan # <<>> => n \in {ns.i - 1, ns.i}
         /\ ns.pc = "done" =>
               /\ n = Len(ns.plan)
               /\ \A k \in 1..n : ns.outcomes[k] = "ok"

C16_Witness ==
  /\ ns.method = "_transmission_query"
  /\ ns.pc = "failed"
  /\ ns.result.kind = "NoDataError"
  /\ Len(ns.plan) = 4
  /\ Len(ns.requests) = 2
  /\ Len(ns.frames) = 1

C16_WitnessGen ==
  /\ ns.method = "_gen_query"
  /\ ns.pc = "failed"
  /\ ns.result.kind = "RateLimitError"
  /\ Len(ns.frames) = 2
  /\ Len(ns.requests) < Len(ns.plan)

\* C17 as the claim states it: every row of a generation query for a given
\* resource type carries the resource's display name ("Solar" for "solar")
\* in psr_type.
C17_AsStated ==
  (ns.method = "_gen_query" /\ ns.pc = "done") =>
     \A r \in 1..Len(ns.result.rows) :
        LET row == ns.result.rows[r]
        IN  row.request.psrType # None =>
              \E i \in 1..Len(PSR_TYPES) :
                 /\ PSR_TYPES[i].code = row.request.psrType[1]
                 /\ row.meta.psr_type = Some(PSR_TYPES[i].name)

\* C18 as the claim states it: imbalance_prices given a list of countries
\* issues one sub-query per country and returns the rows with a "country"
\* label per requested country.  Stated for lists of at least one country.
C18_AsStated ==
  (ns.method = "imbalance_prices" /\ ns.country.list /\ ns.country.items # <<>>) =>
     /\ ns.result.kind \in {"none", "ok", "InvalidParameterError", "ValueError"} \cup SubErrors
     /\ ns.pc = "done" =>
           /\ Len(ns.requests) = Len(ns.country.items)
           /\ \A r \in 1..Len(ns.result.rows) : ns.result.rows[r].country # None

\* the four error kinds of the taxonomy (exceptions.py)
Taxonomy == {"InvalidParameterError", "NoDataError", "RateLimitError", "ENTSOEError"}

\* C21 as the claim states it: a call of a public query method that has
\* ended either returned a non-empty result or raised one of
\* InvalidParameterError, NoDataError, RateLimitError, ENTSOEError; no other
\* exception kind reaches the caller.  Stated for the methods that accept a
\* list of identifiers, the list with no element included.
C21_AsStated ==
  (ns.method \in {"_query_multi", "_gen_query", "_transmission_query"}
     /\ ns.pc \in {"done", "failed"}) =>
     \/ ns.result.kind = "ok" /\ ns.result.rows # <<>>
     \/ ns.result.kind \in Taxonomy

\* C22 as the claim states it: a call that fails with InvalidParameterError
\* for one of its identifiers has issued no sub-request before failing.
C22_AsStated ==
  (ns.pc = "failed" /\ ns.result.kind = "InvalidParameterError") => ns.requests = <<>>

\* ------------------------------------------------------------------------
\* Properties of the transport layer
\* ------------------------------------------------------------------------

Started == http.pc # "idle"

BadTimestamps == ~http.start.aware \/ ~http.end.aware \/ http.start.t >= http.end.t

\* C9: a query (query or query_raw alike) whose start is zone-naive, whose
\* end is zone-naive, or whose start is not before its end fails with
\* InvalidParameterError, and neither a sub-range nor a GET was ever made
\* for it.
C9_ValidationFirst ==
  (Started /\ BadTimestamps) =>
     /\ http.pc = "failed"
     /\ http.result.kind = "InvalidParameterError"
     /\ http.result.message =
          (IF ~http.start.aware THEN StartNaive
           ELSE IF ~http.end.aware THEN EndNaive
           ELSE "start must be before end.")
     /\ http.chunks = <<>>
     /\ http.gets = <<>>
     /\ http.sleeps = <<>>

C9_Witness ==
  /\ http.pc = "failed"
  /\ http.method = "query_raw"
  /\ http.start.aware /\ http.end.aware
  /\ http.start.t = http.end.t
  /\ http.result.kind = "InvalidParameterError"
  /\ http.gets = <<>>

C9_WitnessNaive ==
  /\ http.pc = "failed"
  /\ http.method = "query"
  /\ http.start.aware /\ ~http.end.aware
  /\ http.start.t < http.end.t
  /\ http.result.kind = "InvalidParameterError"
  /\ http.gets = <<>>

Length(chunk) == chunk.end - chunk.start

\* the sub-ranges for which a request was begun: the GET log without the retries
FirstAttempts == SelectSeq(http.gets, LAMBDA g : g.attempt = 0)

SubRangeOf(g) == [start |-> g.start, end |-> g.end]

\* the position in s of the last element equal to x, 0 when there is none
\* C10: for zone-aware start < end the sub-ranges are a non-empty ordered
\* exact partition of [start, end): the first begins at start, the last ends
\* at end, each ends where the next begins, each is between 1 and 365 days
\* long and all but the last exactly 365, a span of at most 365 days gives
\* one sub-range, the number of sub-ranges is the span divided by 365 rounded
\* up (the loop ends), and the requests go out one sub-range after the other
\* in that order: the sub-ranges for which a request was begun are a prefix
\* of the list, every GET asks for the sub-range in hand, and a query that
\* returned has requested all of them.
C10_YearSplitting ==
  (Started /\ ~BadTimestamps) =>
     LET chunks == http.chunks
         n == Len(chunks)
         span == http.end.t - http.start.t
         begun == FirstAttempts
     IN  /\ chunks = _split_years(http.start, http.end)
         /\ n >= 1
         /\ chunks[1].start = http.start.t
         /\ chunks[n].end = http.end.t
         /\ \A k \in 1..(n - 1) : chunks[k].end = chunks[k + 1].start
         /\ \A k \in 1..n : Length(chunks[k]) >= 1 /\ Length(chunks[k]) <= MAX_REQUEST_RANGE
         /\ \A k \in 1..(n - 1) : Length(chunks[k]) = MAX_REQUEST_RANGE
         /\ span <= MAX_REQUEST_RANGE => n = 1
         /\ n = (span + MAX_REQUEST_RANGE - 1) \div MAX_REQUEST_RANGE
         /\ Len(begun) <= n
         /\ \A k \in 1..Len(begun) : SubRangeOf(begun[k]) = chunks[k]
         /\ \A k \in 1..Len(http.gets) :
              SubRangeOf(http.gets[k]) = chunks[Len(SelectSeq(SubSeq(http.gets, 1, k),
                                                            LAMBDA g : g.attempt = 0))]
         /\ http.pc = "request" => Len(begun) = http.i - (IF http.attempt = 0 THEN 1 ELSE 0)
         /\ http.pc = "done" => Len(begun) = n

\* ---- retries ----

Finished == http.pc \in {"done", "failed"}

SameSubRange(g, h) == g.start = h.start /\ g.end = h.end

\* the GETs that were answered 429 with attempts left, in order
Retried == SelectSeq(http.gets, LAMBDA g : g.status = 429 /\ g.attempt < max_retries)

RetrySafety ==
  LET gets == http.gets
      n == Len(gets)
  IN  /\ \A c \in 1..Len(http.chunks) :
            Cardinality({k \in 1..n : SubRangeOf(gets[k]) = http.chunks[c]}) <= max_retries + 1
      /\ \A k \in 1..n : gets[k].attempt \in 0..max_retries
      /\ \A k \in 2..n :
            /\ gets[k].attempt > 0 =>
                  /\ gets[k - 1].status = 429
                  /\ SameSubRange(gets[k - 1], gets[k])
                  /\ gets[k].attempt = gets[k - 1].attempt + 1
            /\ gets[k - 1].status = 429 =>
                  /\ SameSubRange(gets[k - 1], gets[k])
                  /\ gets[k].attempt = gets[k - 1].attempt + 1
      /\ n >= 1 => gets[1].attempt = 0
      /\ Len(http.sleeps) = Len(Retried)
      /\ \A j \in 1..Len(http.sleeps) : http.sleeps[j] = base_delay * (2 ^ Retried[j].attempt)
      /\ http.result.kind = "RateLimitError" <=>
            (n >= 1 /\ gets[n].status = 429 /\ gets[n].attempt = max_retries)
      /\ http.result.kind = "RateLimitError" =>
            /\ http.pc = "failed"
            /\ http.result.status = 429
            /\ \A a \in 0..max_retries :
                  /\ gets[n - a].status = 429
                  /\ gets[n - a].attempt = max_retries - a
                  /\ SameSubRange(gets[n - a], gets[n])
      /\ (n >= 1 /\ gets[n].status = 429 /\ gets[n].attempt < max_retries) =>
            http.pc = "request" /\ http.attempt = gets[n].attempt + 1

\* C11: for one sub-range at most max_retries + 1 GETs go out; a GET after
\* the first follows a 429 answer to the one before and a sleep of
\* base_delay * 2^attempt (1, 2, 4, ...); max_retries + 1 consecutive 429
\* answers end in RateLimitError with status 429 and no sleep or GET after
\* the last of them; and whatever the server answers, the call ends with a
\* result or an error.
C11_BoundedRetry == [](RetrySafety) /\ <>(Finished)

C11_Witness ==
  /\ http.pc = "failed"
  /\ http.result.kind = "RateLimitError"
  /\ http.i = 2
  /\ Len(http.gets) = max_retries + 2
  /\ http.sleeps = <<1, 2, 4>>

\* C12: a 401 answer fails the call at once with ENTSOEError status 401, any
\* other answer that is neither 200 nor 429 fails it at once with
\* ENTSOEError carrying that status, the failing GET is the last GET of the
\* call, and the GET after a 200 answer is the first attempt for the next
\* sub-range.
C12_OnlyRetry429 ==
  LET gets == http.gets
      n == Len(gets)
  IN  /\ \A k \in 1..n :
            gets[k].status \notin {200, 429} =>
              /\ k = n
              /\ http.pc = "failed"
              /\ http.result.kind = "ENTSOEError"
              /\ http.result.status = gets[k].status
              /\ gets[k].status = 401 =>
                    http.result.message = "Unauthorized. Check your ENTSOE_API_KEY."
              /\ Len(http.sleeps) = Len(Retried)
      /\ http.result.kind = "ENTSOEError" => (n >= 1 /\ gets[n].status \notin {200, 429})
      /\ \A k \in 1..(n - 1) :
            gets[k].status = 200 =>
              /\ gets[k + 1].attempt = 0
              /\ gets[k + 1].start = gets[k].end
      /\ (n >= 1 /\ gets[n].status = 200) =>
            \/ http.pc = "done" /\ gets[n].end = http.end.t
            \/ http.pc = "request" /\ http.attempt = 0
                  /\ http.chunks[http.i].start = gets[n].end

C12_Witness ==
  /\ http.pc = "failed"
  /\ http.result.kind = "ENTSOEError"
  /\ http.result.status = 401
  /\ Len(http.chunks) = 3
  /\ http.i = 2
  /\ http.attempt = 1

C12_WitnessOther ==
  /\ http.pc = "failed"
  /\ http.result.kind = "ENTSOEError"
  /\ http.result.status = 500
  /\ Len(http.chunks) = 2
  /\ http.i = 1

\* position of the sub-range a GET asked for in the list of sub-ranges
ChunkIndex(g) == CHOOSE c \in 1..Len(http.chunks) : http.chunks[c] = SubRangeOf(g)

\* C29: in a query split into k sub-ranges the attempt counter starts at
\* zero for each sub-range, so at most k * (max_retries + 1) GETs go out; the
\* GETs of sub-range i + 1 begin only after a 200 answer for sub-range i;
\* and a query that fails at any sub-range returns no document, whatever
\* was fetched before.
C29_RetryBudgetPerSubRange ==
  (Started /\ ~BadTimestamps) =>
     LET gets == http.gets
         n == Len(gets)
     IN  /\ n <= Len(http.chunks) * (max_retries + 1)
         /\ \A p \in 1..n :
               gets[p].attempt =
                 Cardinality({b \in 1..(p - 1) : ChunkIndex(gets[b]) = ChunkIndex(gets[p])})
         /\ n >= 1 => ChunkIndex(gets[1]) = 1
         /\ \A p \in 1..(n - 1) :
               \/ ChunkIndex(gets[p + 1]) = ChunkIndex(gets[p]) /\ gets[p].status = 429
               \/ ChunkIndex(gets[p + 1]) = ChunkIndex(gets[p]) + 1 /\ gets[p].status = 200
         /\ http.pc = "failed" =>
               /\ http.result.kind \in {"RateLimitError", "ENTSOEError"}
               /\ http.result.value.items = <<>>
               /\ gets[n].status # 200
         /\ http.pc = "done" =>
               /\ http.result.kind = "ok"
               /\ \A c \in 1..Len(http.chunks) :
                     \E p \in 1..n : ChunkIndex(gets[p]) = c /\ gets[p].status = 200

\* the first sub-range needed two retries, the second used its own full
\* budget and failed: the documents of the first are not returned
C29_Witness ==
  /\ http.pc = "failed"
  /\ http.result.kind = "RateLimitError"
  /\ http.i = 2
  /\ Len(http.gets) = 3 + (max_retries + 1)
  /\ http.gets[3].status = 200
  /\ http.gets[4].attempt = 0
  /\ http.xml_parts # <<>>
  /\ http.result.value.items = <<>>

C10_Witness ==
  /\ http.pc = "done"
  /\ http.method = "query"
  /\ Len(http.chunks) = 3
  /\ Length(http.chunks[3]) < MAX_REQUEST_RANGE
  /\ Len(FirstAttempts) = 3
  /\ Len(http.gets) > 3

C10_WitnessOneChunk ==
  /\ http.pc = "done"
  /\ http.end.t - http.start.t = MAX_REQUEST_RANGE
  /\ Len(http.chunks) = 1
  /\ Len(http.gets) = 1

\* the most liberal reading of "matches": compared after trimming, ignoring
\* letter case and the difference between a space and an underscore
Norm(s) == replace(lower(strip(s)), " ", "_")

MatchesRegistry(registry, identifier) ==
  \E i \in 1..Len(registry) :
     Norm(identifier) \in {Norm(registry[i].code), Norm(registry[i].slug), Norm(registry[i].name)}

MatchesArea(identifier) ==
  \E i \in 1..Len(AREAS) :
     Norm(identifier) \in {Norm(AREAS[i].key), Norm(AREAS[i].eic), Norm(AREAS[i].name)}

NoMatch(c) ==
  IF c.registry = "AREAS" THEN ~MatchesArea(c.identifier)
  ELSE ~MatchesRegistry(Registry(c.registry), c.identifier)

\* the error message lists every valid slug (short key) and, where the
\* function prints them, every code of the registry
Enumerates(c, r) ==
  CASE c.fn = "_resolve" ->
         \A i \in 1..Len(Registry(c.registry)) :
            LET e == Registry(c.registry)[i]
            IN  \E k \in 1..Len(r.available) :
                   r.available[k] = e.slug \o <<" ", "(">> \o e.code \o <<")">>
    [] c.fn \in {"lookup_area", "country_name"} ->
         \A i \in 1..Len(AREAS) : AREAS[i].key \in Range(r.available)
    [] c.fn = "lookup_psr" ->
         \A i \in 1..Len(PSR_TYPES) :
            PSR_TYPES[i].slug \in Range(r.available) /\ PSR_TYPES[i].code \in Range(r.available)

HasSpace(s) == " " \in Range(s)

\* what lookup_area / country_name give for area number i
AreaResult(fn, i) == IF fn = "lookup_area" THEN AREAS[i].eic ELSE AREAS[i].name

\* C19 as the claim states it: a display name containing a space, written
\* with underscores instead and in any letter case, is resolved by
\* lookup_area and country_name to the same area as the name with spaces.
C19_AsStated ==
  (Done /\ call.fn \in {"lookup_area", "country_name"} /\ call.origin.form = "name_")
    => ret = Return(AreaResult(call.fn, call.origin.idx))

\* C19 amended: lookup_area and country_name resolve a display name
\* containing a space, in any letter case, only when it is written with its
\* spaces; written with underscores it is rejected with
\* InvalidParameterError.
C19_NameWithSpaces ==
  (Done /\ call.fn \in {"lookup_area", "country_name"} /\ call.origin.form \in {"name", "name_"}
        /\ HasSpace(AREAS[call.origin.idx].name)) =>
     /\ call.origin.form = "name" => ret = Return(AreaResult(call.fn, call.origin.idx))
     /\ call.origin.form = "name_" =>
           ret.kind = "InvalidParameterError" /\ ret.value = <<>>

C19_Witness ==
  /\ Done /\ call.fn = "lookup_area" /\ call.origin.form = "name_"
  /\ call.identifier = <<"c","z","e","c","h","_","r","e","p","u","b","l","i","c">>
  /\ ret.kind = "InvalidParameterError"

C19_WitnessSpaces ==
  /\ Done /\ call.fn = "country_name" /\ call.origin.form = "name"
  /\ call.identifier = <<"g","r","e","a","t"," ","b","r","i","t","a","i","n">>
  /\ ret.value = <<"G","r","e","a","t"," ","B","r","i","t","a","i","n">>

\* the canonical code a call was derived from
OriginalCode(c) ==
  IF c.fn = "lookup_area" THEN AREAS[c.origin.idx].eic
  ELSE Registry(c.registry)[c.origin.idx].code

\* the outcome of the slug and display-name rules alone
SlugOrName(c) ==
  LET id == lower(strip(c.identifier))
      registry == IF c.fn = "lookup_area" THEN <<>> ELSE Registry(c.registry)
      hits == {i \in 1..Len(registry) : registry[i].slug = id \/ lower(registry[i].name) = id}
      areas == {i \in 1..Len(AREAS) :
                  c.fn = "lookup_area"
                  /\ (AREAS[i].key = replace(upper(strip(c.identifier)), " ", "_")
                      \/ lower(AREAS[i].name) = id)}
  IN  [codes |-> {registry[i].code : i \in hits} \cup {AREAS[i].eic : i \in areas}]

\* C20 as the claim states it: a canonical code written in another letter
\* case is not matched by the code rule of _resolve, lookup_psr or
\* lookup_area, so it is resolved only if the slug or name rule matches it
\* and is rejected otherwise.
C20_AsStated ==
  (Done /\ call.origin.form = "code_lower" /\ call.identifier # OriginalCode(call)
        /\ call.fn \in {"_resolve", "lookup_psr", "lookup_area"}) =>
     IF SlugOrName(call).codes = {}
     THEN ret.kind # "ok"
     ELSE ret.kind = "ok" /\ ret.value \in SlugOrName(call).codes

\* ------------------------------------------------------------------------
\* Properties of BaseNamespace._query
\* ------------------------------------------------------------------------

\* the zone of string dates on a client built with q.tz
ConfiguredZone == IF q.tz = None THEN "Europe/Brussels" ELSE q.tz[1]

\* what _resolve_ts is to make of one argument
Coerced(value, ts) ==
  /\ value.str =>
        /\ ~ts.str
        /\ ts.tz = Some(ConfiguredZone)
        /\ ts.day = value.day
  /\ ~value.str => ts = value

C23_WitnessPassThrough ==
  /\ q.pc = "done"
  /\ q.tz = None
  /\ q.start_ts = Timestamp(0, Some("Asia/Tokyo"), 1)
  /\ q.end_ts = Timestamp(1, Some("Europe/Brussels"), 0)
  /\ http.gets # <<>>

\* the documents of the value HttpClient.query returned, as text
Documents_ == Fetched(q.dataset, http.result.value).items

\* document and Point indexes of every usable Point of a list of documents
AllValidPoints(docs) == UNION {{<<k, c>> : c \in ValidPoints(docs[k])} : k \in 1..Len(docs)}

\* Xml a comes before Xml b: earlier sub-range, or same sub-range and
\* earlier archive member
Before(a, b) == a.chunk < b.chunk \/ (a.chunk = b.chunk /\ a.member < b.member)

\* C26: HttpClient.query returns a single document exactly when one
\* document was received over all sub-ranges, and otherwise the list of
\* every document, in sub-range order and archive member order, flat;
\* _query takes either shape: when every document parses to rows it
\* returns, and what it returns are the rows of all the documents, sorted
\* ascending by timestamp.
C26_OutputShape ==
  (q.pc # "idle" /\ http.pc = "done") =>
     LET value == http.result.value
         parts == http.xml_parts
         docs == Documents_
     IN  /\ value.items = parts
         /\ value.list <=> Len(parts) # 1
         /\ \A k \in 1..Len(parts) : parts[k].chunk \in 1..Len(http.chunks)
         /\ \A k \in 1..(Len(parts) - 1) : Before(parts[k], parts[k + 1])
         /\ \A k \in 1..Len(parts) :
               parts[k].member > 1 => (k > 1 /\ parts[k - 1] = Xml(parts[k].chunk, parts[k].member - 1))
         /\ q.pc = "done" =>
               /\ Len(q.out.rows) = Cardinality(AllValidPoints(docs))
               /\ \A r \in Range(q.out.rows)
                            \cup {ExpectedRow(docs[x[1]], x[2]) : x \in AllValidPoints(docs)} :
                     Cardinality({n \in 1..Len(q.out.rows) : q.out.rows[n] = r})
                       = Cardinality({x \in AllValidPoints(docs) : ExpectedRow(docs[x[1]], x[2]) = r})
               /\ \A m, n \in 1..Len(q.out.rows) :
                     m < n => Instant(q.out.rows[m]) <= Instant(q.out.rows[n])
         /\ (q.pc \in {"done", "failed"} /\ docs # <<>>
               /\ \A k \in 1..Len(docs) : ValidPoints(docs[k]) # {}) => q.pc = "done"

\* two sub-ranges, the first answered with an archive of two documents: a
\* list of three documents whose six rows came back in timestamp order,
\* the rows of the last document first
C26_Witness ==
  /\ q.pc = "done"
  /\ q.dataset = "rows"
  /\ http.result.value.list
  /\ http.xml_parts = <<Xml(1, 1), Xml(1, 2), Xml(2, 0)>>
  /\ Len(q.out.rows) = 6
  /\ q.out.rows[1].value = Some(3)
  /\ q.out.rows[6].value = Some(1)

\* one sub-range answered with an archive of one document: a single document
C26_WitnessSingle ==
  /\ q.pc = "done"
  /\ ~http.result.value.list
  /\ http.xml_parts = <<Xml(1, 1)>>
  /\ Len(q.out.rows) = 2

\* the documents of a list that hold no usable Point
WithoutRows(docs) == {k \in 1..Len(docs) : ValidPoints(docs[k]) = {}}

\* C30: when HttpClient.query returned a list and one of its documents
\* holds no usable Point, _query raises NoDataError for the whole query,
\* whatever rows the other documents hold; _query returns rows for a list
\* only when every document of the list yields at least one row.
C30_OneEmptyDocumentFails ==
  (q.pc \in {"done", "failed"} /\ http.pc = "done" /\ http.result.value.list) =>
     /\ WithoutRows(Documents_) # {} =>
           (q.pc = "failed" /\ q.out.kind = "NoDataError")
     /\ q.pc = "done" =>
           (Documents_ # <<>> /\ WithoutRows(Documents_) = {} /\ q.out.rows # <<>>)

\* three documents, the last one an acknowledgement with no TimeSeries:
\* the four rows of the first two are lost with it
C30_Witness ==
  /\ q.pc = "failed"
  /\ q.out.kind = "NoDataError"
  /\ http.pc = "done"
  /\ http.result.value.list
  /\ Len(Documents_) = 3
  /\ WithoutRows(Documents_) = {3}
  /\ Cardinality(AllValidPoints(Documents_)) = 4

\* the first document holds a TimeSeries without a usable Point
C30_WitnessFirst ==
  /\ q.pc = "failed"
  /\ q.out.kind = "NoDataError"
  /\ http.pc = "done"
  /\ http.result.value.list
  /\ Len(Documents_) = 2
  /\ WithoutRows(Documents_) = {1}

psr_name(identifier) ==
  LET code == lookup_psr(identifier)
  IN  IF code.kind = "ok" THEN Return(EntryByCode(PSR_TYPES, code.value).name) ELSE code

\* the number of "if ... in ..." tests of a resolver
NumRules(c) == IF c.fn \in {"lookup_psr", "psr_name"} THEN 2 ELSE 3

\* the test of rule number i of call c against the module globals regs
Test(regs, c, i) ==
  LET raw == strip(c.identifier)
      key == replace(upper(raw), " ", "_")
      id_lower == strip(lower(c.identifier))
  IN  CASE c.fn = "lookup_area" /\ i = 1 -> DictHas(regs["AREA_CODES"], key)
        [] c.fn = "country_name" /\ i = 1 -> DictHas(regs["COUNTRY_NAMES"], key)
        [] c.fn \in {"lookup_area", "country_name"} /\ i = 2 -> DictHas(regs["EIC_TO_ISO"], raw)
        [] c.fn \in {"lookup_area", "country_name"} /\ i = 3 -> DictHas(regs["_NAME_TO_ISO"], lower(raw))
        [] c.fn \in {"lookup_psr", "psr_name"} /\ i = 1 ->
             \E n \in 1..Len(regs["PSR_TYPES"]) : regs["PSR_TYPES"][n].code = upper(raw)
        [] c.fn \in {"lookup_psr", "psr_name"} /\ i = 2 -> DictHas(regs["_PSR_NAME_TO_CODE"], lower(raw))
        [] c.fn = "_resolve" /\ i = 1 ->
             \E n \in 1..Len(regs[c.registry]) : regs[c.registry][n].code = c.identifier
        [] c.fn = "_resolve" /\ i = 2 ->
             \E n \in 1..Len(regs[c.registry]) : regs[c.registry][n].slug = id_lower
        [] c.fn = "_resolve" /\ i = 3 ->
             \E n \in 1..Len(regs[c.registry]) : lower(regs[c.registry][n].name) = id_lower

\* the index of the first entry of a registry, in dict order, whose
\* slug (or else lower-cased name) is id_lower
FirstBySlug(registry, id_lower) ==
  CHOOSE n \in 1..Len(registry) :
    registry[n].slug = id_lower /\ \A m \in 1..(n - 1) : registry[m].slug # id_lower

FirstByName(registry, id_lower) ==
  CHOOSE n \in 1..Len(registry) :
    lower(registry[n].name) = id_lower /\ \A m \in 1..(n - 1) : lower(registry[m].name) # id_lower

\* what rule number i of call c returns once its test succeeded
Fetch(regs, c, i) ==
  LET raw == strip(c.identifier)
      key == replace(upper(raw), " ", "_")
      id_lower == strip(lower(c.identifier))
      code == IF i = 1 THEN upper(raw) ELSE DictGet(regs["_PSR_NAME_TO_CODE"], lower(raw))
      iso == DictGet(regs["EIC_TO_ISO"], raw)
  IN  CASE c.fn = "lookup_area" /\ i = 1 -> DictGet(regs["AREA_CODES"], key)
        [] c.fn = "lookup_area" /\ i = 2 -> raw
        [] c.fn = "lookup_area" /\ i = 3 ->
             DictGet(regs["AREA_CODES"], DictGet(regs["_NAME_TO_ISO"], lower(raw)))
        [] c.fn = "country_name" /\ i = 1 -> DictGet(regs["COUNTRY_NAMES"], key)
        [] c.fn = "country_name" /\ i = 2 ->
             IF DictHas(regs["COUNTRY_NAMES"], iso) THEN DictGet(regs["COUNTRY_NAMES"], iso) ELSE iso
        [] c.fn = "country_name" /\ i = 3 ->
             DictGet(regs["COUNTRY_NAMES"], DictGet(regs["_NAME_TO_ISO"], lower(raw)))
        [] c.fn = "lookup_psr" -> code
        [] c.fn = "psr_name" -> EntryByCode(regs["PSR_TYPES"], code).name
        [] c.fn = "_resolve" /\ i = 1 -> c.identifier
        [] c.fn = "_resolve" /\ i = 2 ->
             regs[c.registry][FirstBySlug(regs[c.registry], id_lower)].code
        [] c.fn = "_resolve" /\ i = 3 ->
             regs[c.registry][FirstByName(regs[c.registry], id_lower)].code

\* the exception of call c when no rule matched, its list read from regs
Fail(regs, c) ==
  CASE c.fn \in {"lookup_area", "country_name"} ->
         Raise("InvalidParameterError", "Unknown country", sorted(DictKeys(regs["AREA_CODES"])))
    [] c.fn \in {"lookup_psr", "psr_name"} ->
         Raise("InvalidParameterError", "Unknown PSR type",
               sorted(DictKeys(regs["PSR_CODES"])) \o sorted(RegistryCodes(regs["PSR_TYPES"])))
    [] c.fn = "_resolve" ->
         Raise("KeyError", "Unknown identifier", Available(regs[c.registry]))

\* the thread after its next step
Stepped(regs, th) ==
  CASE th.pc = "test" ->
         IF Test(regs, th.call, th.rule) THEN [th EXCEPT !.pc = "return"]
         ELSE IF th.rule < NumRules(th.call) THEN [th EXCEPT !.rule = @ + 1]
         ELSE [th EXCEPT !.pc = "raise"]
    [] th.pc = "return" -> [th EXCEPT !.pc = "done", !.ret = Return(Fetch(regs, th.call, th.rule))]
    [] th.pc = "raise" -> [th EXCEPT !.pc = "done", !.ret = Fail(regs, th.call)]

\* a step that also remembers the spelling a country name matched under,
\* as a new key of AREA_CODES
Step_memoize(regs, th) ==
  [registries |->
     IF th.pc = "return" /\ th.call.fn = "lookup_area" /\ th.rule = 3
     THEN [regs EXCEPT !["AREA_CODES"] =
             Append(@, <<upper(strip(th.call.identifier)), Fetch(regs, th.call, th.rule)>>)]
     ELSE regs,
   thread |-> Stepped(regs, th)]

\* one step of a resolver: the module globals after it, which no statement
\* of a resolver assigns to, and the thread after it
Step(regs, th) == [registries |-> regs, thread |-> Stepped(regs, th)]

FR == <<"F","R">>

\* the calls the threads choose from: between them a key that needs
\* normalising, an EIC code, display names, a slug and misses
ThreadCalls ==
  { Call("lookup_area", "AREAS", <<" ">> \o lower(FR), "key", 0),
    Call("lookup_area", "AREAS", lower(DictGet(COUNTRY_NAMES, FR)), "name", 0),
    Call("lookup_area", "AREAS", <<"X","X">>, "junk", 0),
    Call("country_name", "AREAS", DictGet(AREA_CODES, FR), "eic", 0),
    Call("psr_name", "PSR_TYPES", <<"S","O","L","A","R">>, "slug", 0),
    Call("_resolve", "PROCESS_TYPES", <<"R","e","a","l","i","s","e","d">>, "name", 0) }

InitThreads ==
  /\ registries = Loaded
  /\ threads = NoThreads
  /\ call = NoCall
  /\ ret = Pending
  /\ doc = NoDoc
  /\ parsed = NotParsed
  /\ http = HttpIdle
  /\ ns = NsIdle
  /\ q = QIdle

\* thread t enters a resolver
Start(t) ==
  /\ threads[t].pc = "idle"
  /\ \E c \in ThreadCalls :
       threads' = [threads EXCEPT ![t] = [pc |-> "test", call |-> c, rule |-> 1, ret |-> Pending]]
  /\ UNCHANGED <<call, ret, doc, parsed, http, ns, q, registries>>

\* thread t runs its next step
Run(t) ==
  /\ threads[t].pc \in {"test", "return", "raise"}
  /\ \E after \in {Step(registries, threads[t])} :
       /\ registries' = after.registries
       /\ threads' = [threads EXCEPT ![t] = after.thread]
  /\ UNCHANGED <<call, ret, doc, parsed, http, ns, q>>

NextThreads == \E t \in 1..MaxThreads : Start(t) \/ Run(t)

SpecThreads == InitThreads /\ [][NextThreads]_vars

\* ------------------------------------------------------------------------
\* Properties of the registries
\* ------------------------------------------------------------------------

\* the result of a call that runs with no other call in progress
Alone(c) == IF c.fn = "psr_name" THEN psr_name(c.identifier) ELSE Apply(c)

\* C27: once loaded, no registry and no derived index is changed by any
\* step of any resolver or name lookup, returning or raising; and each of
\* the concurrent calls, however their steps interleave, ends with the
\* result the same call gives when it runs alone.
C27_RegistriesReadOnly ==
  /\ registries = Loaded
  /\ \A t \in 1..MaxThreads :
       threads[t].pc = "done" => threads[t].ret = Alone(threads[t].call)

\* every thread has finished, one with a value found by display name and
\* one with an exception, and the registries are as loaded
C27_Witness ==
  /\ \A t \in 1..MaxThreads : threads[t].pc = "done"
  /\ \E t \in 1..MaxThreads :
       threads[t].call.fn = "lookup_area" /\ threads[t].rule = 3 /\ threads[t].ret.kind = "ok"
  /\ \E t \in 1..MaxThreads : threads[t].ret.kind = "InvalidParameterError"
  /\ registries = Loaded

====
